---- MODULE Spec2Model ----
(***************************************************************************)
(* Model of the Hugo export plugin (HugoExportPlugin.exportToHugo and the  *)
(* conversions it calls).  Text is a sequence of one-character strings, so *)
(* that the regular expressions of the source are modelled by what they    *)
(* match, character by character.                                          *)
(***************************************************************************)
EXTENDS Integers, Sequences, FiniteSets, TLC

(***************************************************************************)
(* Characters and character classes of the regular expressions.            *)
(***************************************************************************)
Digits == {"0", "1", "2", "3", "4", "5", "6", "7", "8", "9"}

LowerSeq == <<"a", "b", "c", "d", "e", "f", "g", "h", "i", "j", "k", "l", "m",
              "n", "o", "p", "q", "r", "s", "t", "u", "v", "w", "x", "y", "z">>

UpperSeq == <<"A", "B", "C", "D", "E", "F", "G", "H", "I", "J", "K", "L", "M",
              "N", "O", "P", "Q", "R", "S", "T", "U", "V", "W", "X", "Y", "Z">>

Lower == {LowerSeq[n] : n \in DOMAIN LowerSeq}

Upper == {UpperSeq[n] : n \in DOMAIN UpperSeq}

\* \w
WordChars == Lower \cup Upper \cup Digits \cup {"_"}

\* \s
Whitespace == {" ", "\n", "\t"}

\* [a-zA-Z0-9_/-] of inlineTagRegex
TagChars == Lower \cup Upper \cup Digits \cup {"_", "/", "-"}

\* [a-z0-9.-] with the i flag (copyAttachment)
AttachmentNameChars == Lower \cup Upper \cup Digits \cup {".", "-"}

\* [a-z0-9-] with the i flag (generateHugoFilename)
FilenameChars == Lower \cup Upper \cup Digits \cup {"-"}

\* The printable ASCII characters in code order, from the space (code 32); the
\* grave accent (code 96) is spelled out.
AsciiSeq == <<" ", "!", "\"", "#", "$", "%", "&", "'", "(", ")", "*", "+", ",",
              "-", ".", "/", "0", "1", "2", "3", "4", "5", "6", "7", "8", "9",
              ":", ";", "<", "=", ">", "?", "@", "A", "B", "C", "D", "E", "F",
              "G", "H", "I", "J", "K", "L", "M", "N", "O", "P", "Q", "R", "S",
              "T", "U", "V", "W", "X", "Y", "Z", "[", "\\", "]", "^", "_", "grave",
              "a", "b", "c", "d", "e", "f", "g", "h", "i", "j", "k", "l", "m",
              "n", "o", "p", "q", "r", "s", "t", "u", "v", "w", "x", "y", "z",
              "{", "|", "}", "~">>

\* The UTF-16 code unit of a character (what Array.prototype.sort compares).
CharCode(c) ==
    IF c = "\n" THEN 10
    ELSE IF c = "\t" THEN 9
    ELSE 31 + (CHOOSE n \in DOMAIN AsciiSeq : AsciiSeq[n] = c)

\* String.prototype.toLowerCase on one character.
ToLowerChar(c) ==
    IF c \in Upper THEN LowerSeq[CHOOSE n \in DOMAIN UpperSeq : UpperSeq[n] = c]
    ELSE c

toLowerCase(s) == [n \in DOMAIN s |-> ToLowerChar(s[n])]

\* The value undefined where the source expects a string.
Undef == <<"undefined">>

\* JavaScript truthiness of a string-or-undefined value.
Truthy(s) == s # Undef /\ s # <<>>

\* s[p], or the empty string past either end of s.
At(s, p) == IF p >= 1 /\ p <= Len(s) THEN s[p] ELSE ""

\* s.slice(from - 1, to)
Slice(s, from, to) == IF from > to THEN <<>> ELSE SubSeq(s, from, to)

\* s.startsWith(p)
StartsWith(s, p) == Len(s) >= Len(p) /\ SubSeq(s, 1, Len(p)) = p

\* The least p in lo..hi with P(p), or hi + 1 when there is none: where a
\* scan from lo to the right stops.
FirstIndex(P(_), lo, hi) ==
    IF \E p \in lo..hi : P(p)
    THEN CHOOSE p \in lo..hi : P(p) /\ \A q \in lo..(p - 1) : ~P(q)
    ELSE hi + 1

\* Where a greedy run of characters of S that starts at index i of s ends: the
\* first index >= i whose character is not in S (Len(s)+1 if none, i past the end).
RunEnd(s, i, S) ==
    IF i > Len(s) THEN i ELSE FirstIndex(LAMBDA p : s[p] \notin S, i, Len(s))

\* The same for a run of characters that are not in S.
RunEndNot(s, i, S) ==
    IF i > Len(s) THEN i ELSE FirstIndex(LAMBDA p : s[p] \in S, i, Len(s))

(***************************************************************************)
(* Numbers: a number, NaN or undefined.                                    *)
(***************************************************************************)
Num(n) == [k |-> "num", n |-> n]

NaN == [k |-> "nan", n |-> 0]

UndefNum == [k |-> "undefined", n |-> 0]

\* JavaScript truthiness of a number-or-undefined value.
TruthyNum(x) == x.k = "num" /\ x.n # 0

DigitValue(c) == CharCode(c) - 48

\* The value of the decimal digits s[i..j-1], read after the value acc.
RECURSIVE DigitsValue(_, _, _, _)
DigitsValue(s, i, j, acc) ==
    IF i >= j THEN acc ELSE DigitsValue(s, i + 1, j, 10 * acc + DigitValue(s[i]))

\* parseInt(s, 10): leading white space, an optional sign, the leading digits.
parseInt(s) ==
    LET b == RunEnd(s, 1, Whitespace)
        d == IF At(s, b) \in {"-", "+"} THEN b + 1 ELSE b
        e == RunEnd(s, d, Digits)
    IN IF e = d THEN NaN
       ELSE IF At(s, b) = "-" THEN Num(0 - DigitsValue(s, d, e, 0))
       ELSE Num(DigitsValue(s, d, e, 0))

\* String(n) for an integer n, as a template literal prints it.
RECURSIVE NatToStr(_)
NatToStr(n) ==
    IF n < 10 THEN <<AsciiSeq[17 + n]>>
    ELSE NatToStr(n \div 10) \o <<AsciiSeq[17 + (n % 10)]>>

NumToStr(n) == IF n < 0 THEN <<"-">> \o NatToStr(0 - n) ELSE NatToStr(n)

(***************************************************************************)
(* parsePipeContent.                                                       *)
(***************************************************************************)
NoDimensions == [has |-> FALSE, width |-> UndefNum, height |-> UndefNum]

\* dimensionPattern /^(\d+)(?:x(\d+))?$/ on the whole of s.
DimensionMatch(s) ==
    LET w == RunEnd(s, 1, Digits)
        h == RunEnd(s, w + 1, Digits)
    IN IF w > 1 /\ w = Len(s) + 1
           THEN [ok |-> TRUE, g1 |-> Slice(s, 1, w - 1), g2 |-> Undef]
       ELSE IF w > 1 /\ At(s, w) = "x" /\ h > w + 1 /\ h = Len(s) + 1
           THEN [ok |-> TRUE, g1 |-> Slice(s, 1, w - 1), g2 |-> Slice(s, w + 1, h - 1)]
       ELSE [ok |-> FALSE, g1 |-> Undef, g2 |-> Undef]

parsePipeContent(pipeContent) ==
    IF ~Truthy(pipeContent) THEN [dimensions |-> NoDimensions, altText |-> Undef]
    ELSE LET m == DimensionMatch(pipeContent)
         IN IF m.ok
            THEN [dimensions |-> [has |-> TRUE,
                                  width |-> parseInt(m.g1),
                                  height |-> IF Truthy(m.g2) THEN parseInt(m.g2)
                                             ELSE UndefNum],
                  altText |-> Undef]
            ELSE [dimensions |-> NoDimensions, altText |-> pipeContent]

(***************************************************************************)
(* buildFigureShortcode and buildCloudflareImageUrl.                       *)
(***************************************************************************)
FigureOpen == <<"{", "{", "<", " ", "f", "i", "g", "u", "r", "e", " ">>

FigureClose == <<" ", ">", "}", "}">>

CdnPath == <<"/", "c", "d", "n", "-", "c", "g", "i", "/", "i", "m", "a", "g", "e", "/">>

FitScaleDown == <<"f", "i", "t", "=", "s", "c", "a", "l", "e", "-", "d", "o", "w", "n">>

WidthOption == <<",", "w", "i", "d", "t", "h", "=">>

\* one attribute of the directive: the name, =, the quoted value
Attr(name, value) == name \o <<"=", "\"">> \o value \o <<"\"">>

\* options.caption.replace: every double quote gets a backslash before it
RECURSIVE EscapeQuotesFrom(_, _)
EscapeQuotesFrom(s, i) ==
    LET q == RunEndNot(s, i, {"\""})
    IN IF q > Len(s) THEN Slice(s, i, Len(s))
       ELSE Slice(s, i, q - 1) \o <<"\\", "\"">> \o EscapeQuotesFrom(s, q + 1)

EscapeQuotes(s) == EscapeQuotesFrom(s, 1)

\* attrs.join(' ')
RECURSIVE JoinSpace(_)
JoinSpace(attrs) ==
    IF attrs = <<>> THEN <<>>
    ELSE IF Len(attrs) = 1 THEN attrs[1]
    ELSE attrs[1] \o <<" ">> \o JoinSpace(Tail(attrs))

buildFigureShortcode(options) ==
    LET attrs ==
            <<Attr(<<"s", "r", "c">>, options.src)>>
            \o (IF Truthy(options.link)
                THEN <<Attr(<<"l", "i", "n", "k">>, options.link)>> ELSE <<>>)
            \o (IF Truthy(options.alt)
                THEN <<Attr(<<"a", "l", "t">>, options.alt)>> ELSE <<>>)
            \o (IF Truthy(options.caption)
                THEN <<Attr(<<"c", "a", "p", "t", "i", "o", "n">>,
                            EscapeQuotes(options.caption))>> ELSE <<>>)
            \o (IF TruthyNum(options.width)
                THEN <<Attr(<<"w", "i", "d", "t", "h">>, NumToStr(options.width.n))>>
                ELSE <<>>)
            \o (IF TruthyNum(options.height)
                THEN <<Attr(<<"h", "e", "i", "g", "h", "t">>, NumToStr(options.height.n))>>
                ELSE <<>>)
    IN FigureOpen \o JoinSpace(attrs) \o FigureClose

\* siteBaseUrl.replace(/\/$/, '')
StripTrailingSlash(u) ==
    IF u # <<>> /\ u[Len(u)] = "/" THEN Slice(u, 1, Len(u) - 1) ELSE u

buildCloudflareImageUrl(st, imagePath, width) ==
    LET baseUrl == StripTrailingSlash(st.siteBaseUrl)
        transformOptions ==
            FitScaleDown \o (IF TruthyNum(width) THEN WidthOption \o NumToStr(width.n)
                             ELSE <<>>)
    IN baseUrl \o CdnPath \o transformOptions \o imagePath

\* this.settings.enableCloudflareImages && this.settings.siteBaseUrl
CloudflareActive(st) == st.enableCloudflareImages /\ st.siteBaseUrl # <<>>

(***************************************************************************)
(* convertAttachmentLinks: the internal embeds ![[name]] and ![[name|pipe]]*)
(***************************************************************************)
NoMatch == [ok |-> FALSE]

\* /!\[\[([^\]|]+)(?:\|([^\]]+))?\]\]/ tried at index i of s: group 1 runs to
\* the first ] or |, group 2 (after a |) to the first ].
EmbedMatchAt(s, i) ==
    LET j == RunEndNot(s, i + 3, {"]", "|"})
        k == RunEndNot(s, j + 1, {"]"})
    IN IF ~(At(s, i) = "!" /\ At(s, i + 1) = "[" /\ At(s, i + 2) = "[" /\ j > i + 3)
           THEN NoMatch
       ELSE IF At(s, j) = "]" /\ At(s, j + 1) = "]"
           THEN [ok |-> TRUE, next |-> j + 2, text |-> Slice(s, i, j + 1),
                 filename |-> Slice(s, i + 3, j - 1), pipeContent |-> Undef]
       ELSE IF At(s, j) = "|" /\ k > j + 1 /\ At(s, k) = "]" /\ At(s, k + 1) = "]"
           THEN [ok |-> TRUE, next |-> k + 2, text |-> Slice(s, i, k + 1),
                 filename |-> Slice(s, i + 3, j - 1),
                 pipeContent |-> Slice(s, j + 1, k - 1)]
       ELSE NoMatch

\* The replacement callback of convertAttachmentLinks for one match.
EmbedReplacement(m, attachmentMap, hugoImagePath, st) ==
    IF m.filename \notin DOMAIN attachmentMap THEN m.text
    ELSE LET info == attachmentMap[m.filename]
             metadata == parsePipeContent(m.pipeContent)
             directUrl == hugoImagePath \o <<"/">> \o info.newFilename
             cf == CloudflareActive(st)
         IN buildFigureShortcode(
                [src |-> IF cf THEN buildCloudflareImageUrl(st, directUrl,
                                                            metadata.dimensions.width)
                         ELSE directUrl,
                 link |-> IF cf THEN StripTrailingSlash(st.siteBaseUrl) \o directUrl
                          ELSE Undef,
                 alt |-> metadata.altText,
                 caption |-> info.caption,
                 width |-> IF st.enableCloudflareImages THEN UndefNum
                           ELSE metadata.dimensions.width,
                 height |-> IF st.enableCloudflareImages THEN UndefNum
                            ELSE metadata.dimensions.height])

\* content.replace(embedRegex, callback) from index i on: the text up to the
\* next match is kept, the match replaced, and the scan goes on after it.
RECURSIVE ReplaceEmbeds(_, _, _, _, _)
ReplaceEmbeds(s, i, attachmentMap, hugoImagePath, st) ==
    LET p == FirstIndex(LAMBDA q : EmbedMatchAt(s, q).ok, i, Len(s))
        m == EmbedMatchAt(s, p)
    IN IF p > Len(s) THEN Slice(s, i, Len(s))
       ELSE Slice(s, i, p - 1)
            \o EmbedReplacement(m, attachmentMap, hugoImagePath, st)
            \o ReplaceEmbeds(s, m.next, attachmentMap, hugoImagePath, st)

convertAttachmentLinks(content, attachmentMap, hugoImagePath, st) ==
    ReplaceEmbeds(content, 1, attachmentMap, hugoImagePath, st)

(***************************************************************************)
(* convertExternalImages: ![alt](url)                                      *)
(***************************************************************************)
\* /!\[([^\]]*)\]\(([^)]+)\)/ tried at index i of s.
ExternalMatchAt(s, i) ==
    LET j == RunEndNot(s, i + 2, {"]"})
        k == RunEndNot(s, j + 2, {")"})
    IN IF At(s, i) = "!" /\ At(s, i + 1) = "[" /\ At(s, j) = "]" /\ At(s, j + 1) = "("
          /\ k > j + 2 /\ At(s, k) = ")"
       THEN [ok |-> TRUE, next |-> k + 1, text |-> Slice(s, i, k),
             altOrDims |-> Slice(s, i + 2, j - 1), url |-> Slice(s, j + 2, k - 1)]
       ELSE NoMatch

\* altOrDims.lastIndexOf('|') as an index from 1, 0 when there is none.
lastIndexOfPipe(s) ==
    IF \E p \in DOMAIN s : s[p] = "|"
    THEN CHOOSE p \in DOMAIN s : s[p] = "|" /\ \A q \in (p + 1)..Len(s) : s[q] # "|"
    ELSE 0

\* x || undefined
OrUndef(s) == IF s = <<>> THEN Undef ELSE s

\* The replacement callback of convertExternalImages for one match.
ExternalReplacement(m, st) ==
    IF StartsWith(m.url, <<"{", "{">>) \/ StartsWith(m.url, <<"#">>) THEN m.text
    ELSE LET pipeIndex == lastIndexOfPipe(m.altOrDims)
             metadata == parsePipeContent(
                             Slice(m.altOrDims, pipeIndex + 1, Len(m.altOrDims)))
             useDims == pipeIndex # 0 /\ metadata.dimensions.has
             alt == IF useDims THEN OrUndef(Slice(m.altOrDims, 1, pipeIndex - 1))
                    ELSE OrUndef(m.altOrDims)
             dimensions == IF useDims THEN metadata.dimensions ELSE NoDimensions
             cf == CloudflareActive(st)
         IN buildFigureShortcode(
                [src |-> IF cf THEN buildCloudflareImageUrl(st, <<"/">> \o m.url,
                                                            dimensions.width)
                         ELSE m.url,
                 link |-> IF cf THEN m.url ELSE Undef,
                 alt |-> alt,
                 caption |-> Undef,
                 width |-> IF st.enableCloudflareImages THEN UndefNum
                           ELSE dimensions.width,
                 height |-> IF st.enableCloudflareImages THEN UndefNum
                            ELSE dimensions.height])

RECURSIVE ReplaceExternal(_, _, _)
ReplaceExternal(s, i, st) ==
    LET p == FirstIndex(LAMBDA q : ExternalMatchAt(s, q).ok, i, Len(s))
        m == ExternalMatchAt(s, p)
    IN IF p > Len(s) THEN Slice(s, i, Len(s))
       ELSE Slice(s, i, p - 1) \o ExternalReplacement(m, st)
            \o ReplaceExternal(s, m.next, st)

convertExternalImages(content, st) == ReplaceExternal(content, 1, st)

(***************************************************************************)
(* convertHtmlImages: <img ...>                                            *)
(***************************************************************************)
HttpPrefix == <<"h", "t", "t", "p", ":", "/", "/">>

HttpsPrefix == <<"h", "t", "t", "p", "s", ":", "/", "/">>

NoAttributes ==
    [src |-> Undef, alt |-> Undef, width |-> Undef, height |-> Undef, title |-> Undef]

\* /<img\s+([^>]*)\/?>/gi tried at index i of s: the group runs to the first >.
HtmlMatchAt(s, i) ==
    LET w == RunEnd(s, i + 4, Whitespace)
        k == RunEndNot(s, w, {">"})
    IN IF At(s, i) = "<" /\ ToLowerChar(At(s, i + 1)) = "i"
          /\ ToLowerChar(At(s, i + 2)) = "m" /\ ToLowerChar(At(s, i + 3)) = "g"
          /\ w > i + 4 /\ At(s, k) = ">"
       THEN [ok |-> TRUE, next |-> k + 1, text |-> Slice(s, i, k),
             attributesStr |-> Slice(s, w, k - 1)]
       ELSE NoMatch

\* attrRegex /(\w+)\s*=\s*(?:"([^"]*)"|'([^']*)'|(\S+))/ tried at index p of a.
AttrMatchAt(a, p) ==
    LET we == RunEnd(a, p, WordChars)
        eq == RunEnd(a, we, Whitespace)
        v == RunEnd(a, eq + 1, Whitespace)
        dq == RunEndNot(a, v + 1, {"\""})
        sq == RunEndNot(a, v + 1, {"'"})
        bare == RunEndNot(a, v, Whitespace)
    IN IF ~(we > p /\ At(a, eq) = "=") THEN NoMatch
       ELSE IF At(a, v) = "\"" /\ At(a, dq) = "\""
           THEN [ok |-> TRUE, next |-> dq + 1,
                 name |-> toLowerCase(Slice(a, p, we - 1)),
                 value |-> Slice(a, v + 1, dq - 1)]
       ELSE IF At(a, v) = "'" /\ At(a, sq) = "'"
           THEN [ok |-> TRUE, next |-> sq + 1,
                 name |-> toLowerCase(Slice(a, p, we - 1)),
                 value |-> Slice(a, v + 1, sq - 1)]
       ELSE IF bare > v
           THEN [ok |-> TRUE, next |-> bare,
                 name |-> toLowerCase(Slice(a, p, we - 1)),
                 value |-> Slice(a, v, bare - 1)]
       ELSE NoMatch

\* attributes[name] = value, for the names the function reads afterwards.
SetAttribute(attributes, name, value) ==
    IF name = <<"s", "r", "c">> THEN [attributes EXCEPT !.src = value]
    ELSE IF name = <<"a", "l", "t">> THEN [attributes EXCEPT !.alt = value]
    ELSE IF name = <<"w", "i", "d", "t", "h">> THEN [attributes EXCEPT !.width = value]
    ELSE IF name = <<"h", "e", "i", "g", "h", "t">>
        THEN [attributes EXCEPT !.height = value]
    ELSE IF name = <<"t", "i", "t", "l", "e">> THEN [attributes EXCEPT !.title = value]
    ELSE attributes

\* The while loop over attrRegex.exec(attributesStr), from index p on.
RECURSIVE ParseAttributes(_, _, _)
ParseAttributes(a, p, attributes) ==
    LET i == FirstIndex(LAMBDA q : AttrMatchAt(a, q).ok, p, Len(a))
        m == AttrMatchAt(a, i)
    IN IF i > Len(a) THEN attributes
       ELSE ParseAttributes(a, m.next, SetAttribute(attributes, m.name, m.value))

\* Lines 506-531 of the callback: the directive for a tag whose attributes,
\* width and height are these.
HtmlFigure(st, imgSrc, attributes, width, height, isExternal, absolute, cf) ==
    buildFigureShortcode(
        [src |-> IF ~cf THEN imgSrc
                 ELSE IF isExternal
                     THEN buildCloudflareImageUrl(st, <<"/">> \o imgSrc, width)
                 ELSE buildCloudflareImageUrl(st, absolute, width),
         link |-> IF ~cf THEN Undef
                  ELSE IF isExternal THEN imgSrc
                  ELSE StripTrailingSlash(st.siteBaseUrl) \o absolute,
         alt |-> attributes.alt,
         caption |-> attributes.title,
         width |-> IF st.enableCloudflareImages THEN UndefNum ELSE width,
         height |-> IF st.enableCloudflareImages THEN UndefNum ELSE height])

\* Lines 495-504 of the callback, for the attributes the while loop found.
HtmlTag(m, st, attributes) ==
    IF ~Truthy(attributes.src) THEN m.text
    ELSE HtmlFigure(st, attributes.src, attributes,
                    IF Truthy(attributes.width) THEN parseInt(attributes.width)
                    ELSE UndefNum,
                    IF Truthy(attributes.height) THEN parseInt(attributes.height)
                    ELSE UndefNum,
                    StartsWith(attributes.src, HttpPrefix)
                        \/ StartsWith(attributes.src, HttpsPrefix),
                    IF StartsWith(attributes.src, <<"/">>) THEN attributes.src
                    ELSE <<"/">> \o attributes.src,
                    CloudflareActive(st))

\* The replacement callback of convertHtmlImages for one match.
HtmlReplacement(m, st) ==
    HtmlTag(m, st, ParseAttributes(m.attributesStr, 1, NoAttributes))

RECURSIVE ReplaceHtml(_, _, _)
ReplaceHtml(s, i, st) ==
    LET p == FirstIndex(LAMBDA q : HtmlMatchAt(s, q).ok, i, Len(s))
        m == HtmlMatchAt(s, p)
    IN IF p > Len(s) THEN Slice(s, i, Len(s))
       ELSE Slice(s, i, p - 1) \o HtmlReplacement(m, st) \o ReplaceHtml(s, m.next, st)

convertHtmlImages(content, st) == ReplaceHtml(content, 1, st)

(***************************************************************************)
(* yaml.load on the header blocks the model enumerates: lines "key: value",*)
(* "key:" followed by "- item" lines, "key: [a, b]", a lone plain scalar,  *)
(* and an unterminated flow sequence, which makes the parser throw.        *)
(***************************************************************************)
\* s.slice(i - 1).split(c): the pieces of s between the characters c.
RECURSIVE SplitAt(_, _, _)
SplitAt(s, c, i) ==
    LET e == RunEndNot(s, i, {c})
    IN IF e > Len(s) THEN <<Slice(s, i, Len(s))>>
       ELSE <<Slice(s, i, e - 1)>> \o SplitAt(s, c, e + 1)

\* A string without its leading and trailing spaces.
Trim(s) ==
    LET b == RunEnd(s, 1, {" "})
        e == CHOOSE n \in 0..Len(s) :
                 /\ \A q \in (n + 1)..Len(s) : s[q] = " "
                 /\ (n = 0 \/ s[n] # " ")
    IN Slice(s, b, e)

NoTags == [k |-> "undefined", str |-> <<>>, items |-> <<>>]

EmptyFrontmatter ==
    [title |-> Undef, date |-> Undef, author |-> Undef, tags |-> NoTags]

\* One line of a block: a sequence item, a key with or without a value, an
\* opened flow sequence, or plain text.
YamlLine(line) ==
    LET body == IF StartsWith(line, <<" ", " ">>) THEN Slice(line, 3, Len(line))
                ELSE line
        ke == RunEnd(line, 1, WordChars)
        v == Slice(line, ke + 2, Len(line))
    IN IF body = <<"-">> THEN [t |-> "item", v |-> Undef]
       ELSE IF StartsWith(body, <<"-", " ">>)
           THEN [t |-> "item", v |-> Slice(body, 3, Len(body))]
       ELSE IF ke > 1 /\ At(line, ke) = ":" /\ ke = Len(line)
           THEN [t |-> "key", key |-> Slice(line, 1, ke - 1)]
       ELSE IF ke > 1 /\ At(line, ke) = ":" /\ At(line, ke + 1) = " " /\ v # <<>>
           THEN IF v[1] # "["
                    THEN [t |-> "pair", key |-> Slice(line, 1, ke - 1), v |-> v]
                ELSE IF v[Len(v)] = "]"
                    THEN [t |-> "flow", key |-> Slice(line, 1, ke - 1),
                          v |-> Slice(v, 2, Len(v) - 1)]
                ELSE [t |-> "badflow"]
       ELSE IF At(line, 1) = "[" THEN [t |-> "badflow"]
       ELSE [t |-> "plain"]

\* The items of a flow sequence a, b, c.
FlowItems(v) ==
    IF Trim(v) = <<>> THEN <<>>
    ELSE LET parts == SplitAt(v, ",", 1)
         IN [n \in DOMAIN parts |-> Trim(parts[n])]

\* The mapping fm with field key set (only the four fields the export reads
\* are kept).
SetField(fm, key, val, tags) ==
    IF key = <<"t", "i", "t", "l", "e">> THEN [fm EXCEPT !.title = val]
    ELSE IF key = <<"d", "a", "t", "e">> THEN [fm EXCEPT !.date = val]
    ELSE IF key = <<"a", "u", "t", "h", "o", "r">> THEN [fm EXCEPT !.author = val]
    ELSE IF key = <<"t", "a", "g", "s">> THEN [fm EXCEPT !.tags = tags]
    ELSE fm

YamlThrow == [kind |-> "throw", fm |-> EmptyFrontmatter]

\* The lines from n on, read into the mapping fm; open is the key whose block
\* sequence is being read (Undef when none), keys the keys seen so far.
RECURSIVE YamlMapping(_, _, _, _, _)
YamlMapping(lines, n, fm, open, keys) ==
    IF n > Len(lines) THEN [kind |-> "value", fm |-> fm]
    ELSE LET l == YamlLine(lines[n])
         IN IF l.t = "item"
            THEN IF open = Undef THEN YamlThrow
                 ELSE YamlMapping(lines, n + 1,
                          IF open = <<"t", "a", "g", "s">>
                          THEN [fm EXCEPT !.tags =
                                    [k |-> "array", str |-> <<>>,
                                     items |-> Append(fm.tags.items, l.v)]]
                          ELSE fm,
                          open, keys)
            ELSE IF l.t \in {"plain", "badflow"} THEN YamlThrow
            ELSE IF l.key \in keys THEN YamlThrow
            ELSE IF l.t = "key"
                THEN YamlMapping(lines, n + 1, SetField(fm, l.key, Undef, NoTags),
                                 l.key, keys \cup {l.key})
            ELSE IF l.t = "flow"
                THEN YamlMapping(lines, n + 1,
                         SetField(fm, l.key, Undef,
                                  [k |-> "array", str |-> <<>>, items |-> FlowItems(l.v)]),
                         Undef, keys \cup {l.key})
            ELSE YamlMapping(lines, n + 1,
                     SetField(fm, l.key, l.v,
                              [k |-> "string", str |-> l.v, items |-> <<>>]),
                     Undef, keys \cup {l.key})

\* yaml.load(block) || {}: a value that is not a mapping (nothing, a scalar, a
\* list) has none of the fields.
YamlLoad(block) ==
    LET lines == SplitAt(block, "\n", 1)
        first == YamlLine(lines[1])
    IN IF \E n \in DOMAIN lines : YamlLine(lines[n]).t = "badflow" THEN YamlThrow
       ELSE IF first.t \in {"key", "pair", "flow"}
           THEN YamlMapping(lines, 1, EmptyFrontmatter, Undef, {})
       ELSE IF first.t = "plain" /\ Len(lines) = 1
           THEN [kind |-> "value", fm |-> EmptyFrontmatter]
       ELSE IF \A n \in DOMAIN lines : YamlLine(lines[n]).t = "item"
           THEN [kind |-> "value", fm |-> EmptyFrontmatter]
       ELSE YamlThrow

(***************************************************************************)
(* extractTags.                                                            *)
(***************************************************************************)
\* A collection that takes a value however often it is added.
SetAddAgain(tagSet, tag) == Append(tagSet, tag)

\* tagSet.add(tag): a Set keeps insertion order and holds a value once.
SetAdd(tagSet, tag) ==
    IF \E n \in DOMAIN tagSet : tagSet[n] = tag THEN tagSet ELSE Append(tagSet, tag)

\* The frontmatter.tags.forEach loop over items n..Len(items).
RECURSIVE AddItems(_, _, _)
AddItems(tagSet, items, n) ==
    IF n > Len(items) THEN tagSet
    ELSE AddItems(IF Truthy(items[n]) THEN SetAdd(tagSet, items[n]) ELSE tagSet,
                  items, n + 1)

FrontmatterTags(frontmatter) ==
    IF frontmatter.tags.k = "array" THEN AddItems(<<>>, frontmatter.tags.items, 1)
    ELSE IF frontmatter.tags.k = "string" /\ frontmatter.tags.str # <<>>
        THEN <<frontmatter.tags.str>>
    ELSE <<>>

\* A test that passes over every match that begins a line.
IncludeUnlessLineStart(body, i, e) ==
    i = 1 \/ At(body, i - 1) # "\n"

\* The test of line 221 on the match of inlineTagRegex at index i (from 1)
\* ending before index e.
IncludeInlineTag(body, i, e) ==
    i = 1 \/ At(body, i - 1) # "\n" \/ At(body, e) # " "

\* The while loop over inlineTagRegex.exec(body), /#([a-zA-Z0-9_\/-]+)/g, from
\* index i on.
RECURSIVE AddInlineTags(_, _, _)
AddInlineTags(tagSet, body, i) ==
    LET p == FirstIndex(LAMBDA q : body[q] = "#" /\ At(body, q + 1) \in TagChars,
                        i, Len(body))
        e == RunEnd(body, p + 1, TagChars)
    IN IF p > Len(body) THEN tagSet
       ELSE AddInlineTags(IF IncludeInlineTag(body, p, e)
                          THEN SetAdd(tagSet, Slice(body, p + 1, e - 1))
                          ELSE tagSet,
                          body, e)

\* a < b as Array.prototype.sort orders strings: by UTF-16 code units.
StrLess(a, b) ==
    LET n == IF Len(a) < Len(b) THEN Len(a) ELSE Len(b)
        d == FirstIndex(LAMBDA q : a[q] # b[q], 1, n)
    IN IF d > n THEN Len(a) < Len(b) ELSE CharCode(a[d]) < CharCode(b[d])

\* x put into the sorted sequence sorted.
RECURSIVE Insert(_, _)
Insert(sorted, x) ==
    IF sorted = <<>> THEN <<x>>
    ELSE IF StrLess(x, sorted[1]) THEN <<x>> \o sorted
    ELSE <<sorted[1]>> \o Insert(Tail(sorted), x)

\* Array.from(tagSet).sort()
RECURSIVE Sort(_)
Sort(xs) == IF xs = <<>> THEN <<>> ELSE Insert(Sort(Tail(xs)), xs[1])

extractTags(frontmatter, body) ==
    Sort(AddInlineTags(FrontmatterTags(frontmatter), body, 1))

(***************************************************************************)
(* convertToHugo.                                                          *)
(***************************************************************************)
Delimiter == <<"-", "-", "-", "\n">>

BlockEnd == <<"\n", "-", "-", "-", "\n">>

\* new Date().toISOString(): the clock is outside the plugin.
NowIso == <<"2", "0", "2", "6", "-", "1", "1", "-", "0", "6", "T", "0", "0", ":",
            "0", "0", ":", "0", "0", ".", "0", "0", "0", "Z">>

UnknownAuthor == <<"U", "n", "k", "n", "o", "w", "n">>

\* A match whose block stays in the body.
FrontmatterMatchKeepsBlock(content) ==
    LET ends == {j \in 5..(Len(content) - 4) : Slice(content, j, j + 4) = BlockEnd}
        je == CHOOSE j \in ends : \A q \in ends : j <= q
    IN IF StartsWith(content, Delimiter) /\ ends # {}
       THEN [ok |-> TRUE, block |-> Slice(content, 5, je - 1), len |-> 0]
       ELSE [ok |-> FALSE, block |-> <<>>, len |-> 0]

\* frontmatterRegex /^---\n([\s\S]*?)\n---\n/: the block ends at the first
\* line that is --- after the opening one.
FrontmatterMatch(content) ==
    LET ends == {j \in 5..(Len(content) - 4) : Slice(content, j, j + 4) = BlockEnd}
        je == CHOOSE j \in ends : \A q \in ends : j <= q
    IN IF StartsWith(content, Delimiter) /\ ends # {}
       THEN [ok |-> TRUE, block |-> Slice(content, 5, je - 1), len |-> je + 4]
       ELSE [ok |-> FALSE, block |-> <<>>, len |-> 0]

\* Tag lines without their indentation.
RECURSIVE TagLinesFlat(_)
TagLinesFlat(tags) ==
    IF tags = <<>> THEN <<>>
    ELSE <<"-", " ">> \o tags[1] \o <<"\n">> \o TagLinesFlat(Tail(tags))

\* The lines "  - tag" of the header.
RECURSIVE TagLines(_)
TagLines(tags) ==
    IF tags = <<>> THEN <<>>
    ELSE <<" ", " ", "-", " ">> \o tags[1] \o <<"\n">> \o TagLines(Tail(tags))

\* a || b
Or(a, b) == IF Truthy(a) THEN a ELSE b

\* The header with the date before the title.
HugoFrontmatterDateFirst(title, date, author, tags) ==
    Delimiter
    \o <<"d", "a", "t", "e", ":", " ">> \o date
    \o <<"\n", "t", "i", "t", "l", "e", ":", " ", "\"">> \o title
    \o <<"\"", "\n", "a", "u", "t", "h", "o", "r", ":", " ">> \o author
    \o <<"\n", "d", "r", "a", "f", "t", ":", " ", "f", "a", "l", "s", "e", "\n">>
    \o (IF Len(tags) > 0 THEN <<"t", "a", "g", "s", ":", "\n">> \o TagLines(tags)
        ELSE <<>>)
    \o <<"-", "-", "-", "\n", "\n">>

\* Lines 179-194: the header with these values.
HugoFrontmatter(title, date, author, tags) ==
    Delimiter
    \o <<"t", "i", "t", "l", "e", ":", " ", "\"">> \o title
    \o <<"\"", "\n", "d", "a", "t", "e", ":", " ">> \o date
    \o <<"\n", "a", "u", "t", "h", "o", "r", ":", " ">> \o author
    \o <<"\n", "d", "r", "a", "f", "t", ":", " ", "f", "a", "l", "s", "e", "\n">>
    \o (IF Len(tags) > 0 THEN <<"t", "a", "g", "s", ":", "\n">> \o TagLines(tags)
        ELSE <<>>)
    \o <<"-", "-", "-", "\n", "\n">>

\* Lines 171-196, for the body and the header mapping of lines 157-169.
HugoDocument(file, st, matched, threw, body, existingFrontmatter, tags) ==
    [matched |-> matched, threw |-> threw, body |-> body,
     frontmatter |-> existingFrontmatter, tags |-> tags,
     text |-> HugoFrontmatter(
                  Or(existingFrontmatter.title, file.basename),
                  Or(existingFrontmatter.date, NowIso),
                  Or(existingFrontmatter.author, Or(st.defaultAuthor, UnknownAuthor)),
                  tags)
              \o body]

\* Lines 160-172, for the result of yaml.load.
HugoLoaded(file, st, matched, body, loaded) ==
    HugoDocument(file, st, matched, loaded.kind = "throw", body, loaded.fm,
                 extractTags(loaded.fm, body))

\* Lines 157-169, for the match of frontmatterRegex.
HugoMatched(content, file, st, match) ==
    HugoLoaded(file, st, match.ok,
               IF match.ok THEN Slice(content, match.len + 1, Len(content))
               ELSE content,
               IF match.ok THEN YamlLoad(match.block)
               ELSE [kind |-> "value", fm |-> EmptyFrontmatter])

\* What convertToHugo computes: the body, the parsed header, whether parsing
\* threw, the tags, and the text it returns.
HugoParts(content, file, st) ==
    HugoMatched(content, file, st, FrontmatterMatch(content))

convertToHugo(content, file, st) == HugoParts(content, file, st).text

\* basename.replace(/[^a-z0-9-]/gi, '-').toLowerCase() + ".md"
generateHugoFilename(file) ==
    [n \in DOMAIN file.basename |->
        IF file.basename[n] \in FilenameChars THEN ToLowerChar(file.basename[n])
        ELSE "-"] \o <<".", "m", "d">>

(***************************************************************************)
(* The vault (the content store) and the attachments.                      *)
(***************************************************************************)
\* What ExifReader.load finds in a file's bytes.
NoExif == [valid |-> TRUE, iptc |-> Undef, imageDescription |-> Undef,
           userComment |-> Undef]

\* The files of the vault: path, name (the last segment of the path) and the
\* content, which is its identity and the metadata embedded in it.
VaultFiles ==
    { [path |-> <<"a", ".", "p", "n", "g">>, name |-> <<"a", ".", "p", "n", "g">>,
       bytes |-> [id |-> "a.png",
                  exif |-> [NoExif EXCEPT !.iptc = <<"c", "\"", "q">>,
                                          !.userComment = <<"u">>]]],
      [path |-> <<"p", "i", "c", ".", "j", "p", "g">>,
       name |-> <<"p", "i", "c", ".", "j", "p", "g">>,
       bytes |-> [id |-> "pic.jpg", exif |-> [NoExif EXCEPT !.valid = FALSE]]],
      [path |-> <<"s", "/", "M", "y", " ", "b", ".", "P", "N", "G">>,
       name |-> <<"M", "y", " ", "b", ".", "P", "N", "G">>,
       bytes |-> [id |-> "s/My b.PNG",
                  exif |-> [NoExif EXCEPT !.imageDescription = <<"d">>,
                                          !.userComment = <<"u">>]]],
      [path |-> <<"m", "y", "_", "b", ".", "p", "n", "g">>,
       name |-> <<"m", "y", "_", "b", ".", "p", "n", "g">>,
       bytes |-> [id |-> "my_b.png", exif |-> NoExif]],
      [path |-> <<"p", "i", "c", ".", "g", "i", "f">>,
       name |-> <<"p", "i", "c", ".", "g", "i", "f">>,
       bytes |-> [id |-> "pic.gif", exif |-> NoExif]],
      [path |-> <<"s", "/", "p", "i", "c">>, name |-> <<"p", "i", "c">>,
       bytes |-> [id |-> "s/pic", exif |-> NoExif]],
      [path |-> <<"s", "/", "n">>, name |-> <<"n">>,
       bytes |-> [id |-> "s/n", exif |-> NoExif]],
      [path |-> <<"p", "h", "o", "t", "o", ".", "j", "p", "g">>, name |-> <<"p", "h", "o", "t", "o", ".", "j", "p", "g">>,
       bytes |-> [id |-> "photo.jpg", exif |-> NoExif]],
      [path |-> <<"c", ".", "p", "n", "g">>, name |-> <<"c", ".", "p", "n", "g">>,
       bytes |-> [id |-> "c.png",
                  exif |-> [NoExif EXCEPT !.iptc = <<"!", "[", "c", "]", "(", "d", ")">>]]] }

NoFile == [path |-> Undef, name |-> Undef, bytes |-> [id |-> "", exif |-> NoExif]]

\* this.app.vault.getAbstractFileByPath(path) when it is a TFile, else NoFile
\* (the path of a folder, or of nothing).
getFileByPath(path) ==
    IF \E f \in VaultFiles : f.path = path
    THEN CHOOSE f \in VaultFiles : f.path = path
    ELSE NoFile

\* this.app.metadataCache.getFirstLinkpathDest(linkpath, sourcePath): the file
\* whose path is the link path, or whose name is, wherever it is in the vault.
getFirstLinkpathDest(linkpath, sourcePath) ==
    IF getFileByPath(linkpath) # NoFile THEN getFileByPath(linkpath)
    ELSE IF \E f \in VaultFiles : f.name = linkpath
        THEN CHOOSE f \in VaultFiles : f.name = linkpath
    ELSE NoFile

Extensions == << <<"p", "n", "g">>, <<"j", "p", "g">>, <<"j", "p", "e", "g">>,
                 <<"g", "i", "f">>, <<"w", "e", "b", "p">>, <<"s", "v", "g">>,
                 <<"p", "d", "f">> >>

\* /\.[^.]+$/.test(filename)
hasExtension(filename) ==
    \E n \in DOMAIN filename :
        /\ filename[n] = "."
        /\ n < Len(filename)
        /\ \A q \in (n + 1)..Len(filename) : filename[q] # "."

\* The loop over extensions searching from the last extension to the first.
RECURSIVE TryExtensionsBackwards(_, _)
TryExtensionsBackwards(filename, n) ==
    IF n > Len(Extensions) THEN NoFile
    ELSE LET later == TryExtensionsBackwards(filename, n + 1)
         IN IF later # NoFile THEN later
            ELSE getFileByPath(filename \o <<".">> \o Extensions[n])

\* The loop over extensions, from the n-th on.
RECURSIVE TryExtensions(_, _)
TryExtensions(filename, n) ==
    IF n > Len(Extensions) THEN NoFile
    ELSE LET file == getFileByPath(filename \o <<".">> \o Extensions[n])
         IN IF file # NoFile THEN file ELSE TryExtensions(filename, n + 1)

\* One call of the vault or of the metadata cache, and what it returned.
Lookup(call, arg, found) == [call |-> call, arg |-> arg, file |-> found]

\* The calls the loop over extensions makes, from the n-th extension on.
RECURSIVE ExtensionLookups(_, _)
ExtensionLookups(filename, n) ==
    IF n > Len(Extensions) THEN <<>>
    ELSE <<Lookup("getAbstractFileByPath", filename \o <<".">> \o Extensions[n],
                  getFileByPath(filename \o <<".">> \o Extensions[n]))>>
         \o (IF getFileByPath(filename \o <<".">> \o Extensions[n]) # NoFile THEN <<>>
             ELSE ExtensionLookups(filename, n + 1))

\* The calls resolveAttachmentPath makes, in the order it makes them.
ResolveLookups(filename, sourceFile) ==
    <<Lookup("getAbstractFileByPath", filename, getFileByPath(filename))>>
    \o (IF getFileByPath(filename) # NoFile THEN <<>>
        ELSE (IF hasExtension(filename) THEN <<>> ELSE ExtensionLookups(filename, 1))
             \o (IF ~hasExtension(filename) /\ TryExtensions(filename, 1) # NoFile
                 THEN <<>>
                 ELSE <<Lookup("getFirstLinkpathDest", filename,
                               getFirstLinkpathDest(filename, sourceFile.path))>>))

\* resolveAttachmentPath: NoFile stands for null.
resolveAttachmentPath(filename, sourceFile) ==
    LET exact == getFileByPath(filename)
        byExtension == IF hasExtension(filename) THEN NoFile
                       ELSE TryExtensions(filename, 1)
    IN IF exact # NoFile THEN exact
       ELSE IF byExtension # NoFile THEN byExtension
       ELSE getFirstLinkpathDest(filename, sourceFile.path)

\* The matches of embedRegex in content from index i on, as findAttachments
\* collects them.
RECURSIVE FindEmbeds(_, _)
FindEmbeds(content, i) ==
    LET p == FirstIndex(LAMBDA q : EmbedMatchAt(content, q).ok, i, Len(content))
        m == EmbedMatchAt(content, p)
    IN IF p > Len(content) THEN <<>>
       ELSE <<[filename |-> m.filename, pipeContent |-> m.pipeContent]>>
            \o FindEmbeds(content, m.next)

findAttachments(content) == FindEmbeds(content, 1)

\* extractExifCaption: IPTC Caption/Abstract, then EXIF ImageDescription, then
\* EXIF UserComment; undefined when the bytes do not parse.
extractExifCaption(buffer) ==
    IF ~buffer.exif.valid THEN Undef
    ELSE IF Truthy(buffer.exif.iptc) THEN buffer.exif.iptc
    ELSE IF Truthy(buffer.exif.imageDescription) THEN buffer.exif.imageDescription
    ELSE IF Truthy(buffer.exif.userComment) THEN buffer.exif.userComment
    ELSE Undef

\* A file name kept as it is.
SanitizeKeepsName(name) == name

\* attachmentFile.name.replace(/[^a-z0-9.-]/gi, '-').toLowerCase()
SanitizeAttachmentName(name) ==
    [n \in DOMAIN name |->
        IF name[n] \in AttachmentNameChars THEN ToLowerChar(name[n]) ELSE "-"]

\* path.join(dir, name) for a name without separators.
pathJoin(dir, name) == [dir |-> dir, name |-> name]

\* path.dirname of such a path.
dirname(p) == IF p.dir = "" THEN "." ELSE p.dir

(***************************************************************************)
(* The state of one export (exportToHugo) and of what it acts on.          *)
(***************************************************************************)
VARIABLES
    pc,             \* where exportToHugo stands
    settings,       \* this.settings, shared with the settings tab
    file,           \* the note being exported (the TFile and its text)
    content,        \* the local variable content
    attachments,    \* the result of findAttachments
    idx,            \* the position of the for loop in attachments
    cur,            \* the attachment being copied, and the arguments of the call
    attachmentMap,  \* the local variable attachmentMap
    hugoContent,    \* the local variable hugoContent
    fsDirs,         \* the directories of the destination file system
    fsFiles,        \* its files: path -> content
    notices,        \* the Notices shown to the user
    console,        \* console.warn and console.error
    log,            \* history: the calls and the stages of the export, in order
    changes         \* history: how often the settings tab changed a setting

vars == <<pc, settings, file, content, attachments, idx, cur, attachmentMap,
          hugoContent, fsDirs, fsFiles, notices, console, log, changes>>

\* Bounds of the model.
MaxFrags == 2

MaxChanges == 1

\* The values the settings tab may give to a setting.
ExportPaths == {"", "/site/content"}

AttachmentPaths == {"", "/site/static", "/site/assets"}

AttachmentUrls == {<<"/", "i">>, <<"i">>}

Authors == {<<>>, <<"M", "e">>}

SiteUrl == <<"h", "t", "t", "p", "s", ":", "/", "/", "s", "i", "t", "e", ".", "c", "o", "m">>

BaseUrls == {<<>>, SiteUrl, SiteUrl \o <<"/">>}

\* DEFAULT_SETTINGS
DEFAULT_SETTINGS ==
    [hugoExportPath |-> "", hugoAttachmentsPath |-> "",
     hugoAttachmentsUrl |-> <<"/", "i">>, defaultAuthor |-> <<>>,
     enableCloudflareImages |-> FALSE, siteBaseUrl |-> <<>>]

SettingsValues ==
    [hugoExportPath : ExportPaths, hugoAttachmentsPath : AttachmentPaths,
     hugoAttachmentsUrl : AttachmentUrls, defaultAuthor : Authors,
     enableCloudflareImages : BOOLEAN, siteBaseUrl : BaseUrls]

\* The texts made of at most n of the given fragments, one after the other.
RECURSIVE Texts(_, _)
Texts(frags, n) ==
    IF n = 0 THEN {<<>>}
    ELSE Texts(frags, n - 1)
         \cup {t \o f : t \in Texts(frags, n - 1), f \in frags}

NoteFile(raw) ==
    [basename |-> <<"M", "y", " ", "N", "o", "t", "e">>,
     path |-> <<"M", "y", " ", "N", "o", "t", "e", ".", "m", "d">>,
     raw |-> raw]

NoCur == [file |-> NoFile, destDir |-> "", filename |-> Undef]

\* The state before the command runs, for a note with the text raw and the
\* settings st.
Start(raw, st) ==
    /\ pc = "idle"
    /\ settings = st
    /\ file = NoteFile(raw)
    /\ content = <<>>
    /\ attachments = <<>>
    /\ idx = 1
    /\ cur = NoCur
    /\ attachmentMap = <<>>
    /\ hugoContent = <<>>
    /\ fsDirs = {"."}
    /\ fsFiles = <<>>
    /\ notices = <<>>
    /\ console = <<>>
    /\ log = <<>>
    /\ changes = 0

\* Notes with internal embeds: found at its path, found by an added
\* extension, found by link resolution, sanitizing to the name of another, and
\* not found.
EmbedFrags ==
    { <<"!", "[", "[", "a", ".", "p", "n", "g", "]", "]">>,
      <<"!", "[", "[", "m", ".", "p", "n", "g", "]", "]">>,
      <<"!", "[", "[", "M", "y", " ", "b", ".", "P", "N", "G", "|", "a", "l", "t", "]", "]">>,
      <<"!", "[", "[", "m", "y", "_", "b", ".", "p", "n", "g", "]", "]">>,
      <<"!", "[", "[", "p", "i", "c", "|", "5", "x", "3", "]", "]">> }

Init ==
    \E raw \in Texts(EmbedFrags, MaxFrags) :
    \E st \in SettingsValues :
        /\ st.defaultAuthor = <<>>
        /\ st.hugoAttachmentsUrl = <<"/", "i">>
        /\ st.hugoAttachmentsPath # "/site/assets"
        /\ st.siteBaseUrl # SiteUrl \o <<"/">>
        /\ st.enableCloudflareImages = (st.siteBaseUrl # <<>>)
        /\ Start(raw, st)

(***************************************************************************)
(* exportToHugo, one action per step.  The function is suspended only      *)
(* while it awaits the vault (pc = "read", pc = "readBinary"); between two *)
(* such points it runs without interruption.                               *)
(***************************************************************************)
Logged(e) == log' = Append(log, e)

\* A catch block that lets the export go on with the next stage.
FailAndGoOn(events, before) ==
    /\ log' = log \o events
    /\ console' = console \o before \o <<[level |-> "error", what |-> "Export failed"]>>
    /\ notices' = Append(notices, [kind |-> "failed"])
    /\ pc' = IF pc = "write" THEN "done" ELSE "convertExternalImages"

\* The catch block, after the calls events and the console lines before:
\* console.error and the failure Notice.
Fail(events, before) ==
    /\ log' = log \o events
    /\ console' = console \o before \o <<[level |-> "error", what |-> "Export failed"]>>
    /\ notices' = Append(notices, [kind |-> "failed"])
    /\ pc' = "done"

\* The command without the check of the export path.
InvokeUnchecked ==
    /\ pc = "idle"
    /\ pc' = "read"
    /\ Logged([op |-> "vault.read", path |-> file.path, st |-> settings])
    /\ UNCHANGED <<settings, file, content, attachments, idx, cur, attachmentMap,
                   hugoContent, fsDirs, fsFiles, notices, console, changes>>

\* Lines 93-99: the check of the export path, then vault.read is called.
Invoke ==
    /\ pc = "idle"
    /\ IF settings.hugoExportPath = ""
       THEN /\ notices' = Append(notices, [kind |-> "configure"])
            /\ pc' = "done"
            /\ UNCHANGED log
       ELSE /\ pc' = "read"
            /\ Logged([op |-> "vault.read", path |-> file.path, st |-> settings])
            /\ UNCHANGED notices
    /\ UNCHANGED <<settings, file, content, attachments, idx, cur, attachmentMap,
                   hugoContent, fsDirs, fsFiles, console, changes>>

\* Lines 99-104: vault.read returns; the attachments are looked for when the
\* attachments path is set.
ReadNote ==
    /\ pc = "read"
    /\ content' = file.raw
    /\ IF settings.hugoAttachmentsPath # ""
       THEN /\ attachments' = findAttachments(file.raw)
            /\ Logged([op |-> "findAttachments", found |-> findAttachments(file.raw)])
            /\ pc' = "resolve"
       ELSE /\ attachments' = <<>>
            /\ UNCHANGED log
            /\ pc' = "convertExternalImages"
    /\ idx' = 1
    /\ UNCHANGED <<settings, file, cur, attachmentMap, hugoContent, fsDirs, fsFiles,
                   notices, console, changes>>

\* vault.read rejects (line 99).
ReadFails ==
    /\ pc = "read"
    /\ Fail(<<[op |-> "readError", path |-> file.path, ok |-> FALSE]>>, <<>>)
    /\ UNCHANGED <<settings, file, content, attachments, idx, cur, attachmentMap,
                   hugoContent, fsDirs, fsFiles, changes>>

\* Lines 105-108: the attachment resolves; copyAttachment is called and waits
\* for vault.readBinary.
ResolveFound ==
    /\ pc = "resolve"
    /\ idx <= Len(attachments)
    /\ LET name == attachments[idx].filename
           attachmentFile == resolveAttachmentPath(name, file)
       IN /\ attachmentFile # NoFile
          /\ cur' = [file |-> attachmentFile, destDir |-> settings.hugoAttachmentsPath,
                     filename |-> name]
          /\ log' = log \o <<[op |-> "resolve", name |-> name, found |-> TRUE,
                              tried |-> ResolveLookups(name, file)],
                             [op |-> "readBinary", path |-> attachmentFile.path]>>
    /\ pc' = "readBinary"
    /\ UNCHANGED <<settings, file, content, attachments, idx, attachmentMap,
                   hugoContent, fsDirs, fsFiles, notices, console, changes>>

\* An attachment that does not resolve, passed over without a warning.
ResolveNotFoundSilent ==
    /\ pc = "resolve"
    /\ idx <= Len(attachments)
    /\ resolveAttachmentPath(attachments[idx].filename, file) = NoFile
    /\ Logged([op |-> "resolve", name |-> attachments[idx].filename, found |-> FALSE,
               tried |-> ResolveLookups(attachments[idx].filename, file)])
    /\ idx' = idx + 1
    /\ UNCHANGED <<pc, settings, file, content, attachments, cur, attachmentMap,
                   hugoContent, fsDirs, fsFiles, notices, console, changes>>

\* Lines 106, 110-112: the attachment does not resolve.
ResolveNotFound ==
    /\ pc = "resolve"
    /\ idx <= Len(attachments)
    /\ LET name == attachments[idx].filename
       IN /\ resolveAttachmentPath(name, file) = NoFile
          /\ Logged([op |-> "resolve", name |-> name, found |-> FALSE,
                     tried |-> ResolveLookups(name, file)])
          /\ console' = Append(console, [level |-> "warn",
                                         what |-> "Attachment not found",
                                         name |-> name])
    /\ idx' = idx + 1
    /\ UNCHANGED <<pc, settings, file, content, attachments, cur, attachmentMap,
                   hugoContent, fsDirs, fsFiles, notices, changes>>

\* A loop that ends before its last attachment.
LoopDoneEarly ==
    /\ pc = "resolve"
    /\ idx >= Len(attachments)
    /\ pc' = "convertAttachmentLinks"
    /\ UNCHANGED <<settings, file, content, attachments, idx, cur, attachmentMap,
                   hugoContent, fsDirs, fsFiles, notices, console, log, changes>>

\* The for loop of line 105 ends.
LoopDone ==
    /\ pc = "resolve"
    /\ idx > Len(attachments)
    /\ pc' = "convertAttachmentLinks"
    /\ UNCHANGED <<settings, file, content, attachments, idx, cur, attachmentMap,
                   hugoContent, fsDirs, fsFiles, notices, console, log, changes>>

\* What copyAttachment logs for the caption of the bytes it read.
CaptionWarning(bytes) ==
    IF bytes.exif.valid THEN <<>>
    ELSE <<[level |-> "warn", what |-> "Failed to extract EXIF caption"]>>

\* The directory dir is made when it does not exist (lines 292-294, 133-135).
MkdirEvents(dir, ok) ==
    IF dir \in fsDirs THEN <<>> ELSE <<[op |-> "mkdir", dir |-> dir, ok |-> ok]>>

\* copyAttachment after vault.readBinary returned (lines 283-303), and
\* attachmentMap.set (line 109).
CopyAttachment ==
    /\ pc = "readBinary"
    /\ LET bytes == cur.file.bytes
           caption == extractExifCaption(bytes)
           sanitizedName == SanitizeAttachmentName(cur.file.name)
           destPath == pathJoin(cur.destDir, sanitizedName)
       IN /\ fsDirs' = fsDirs \cup {cur.destDir}
          /\ fsFiles' = (destPath :> <<bytes.id>>) @@ fsFiles
          /\ attachmentMap' =
                 (cur.filename :> [newFilename |-> sanitizedName, caption |-> caption])
                 @@ attachmentMap
          /\ console' = console \o CaptionWarning(bytes)
          /\ log' = log \o MkdirEvents(cur.destDir, TRUE)
                        \o <<[op |-> "write", path |-> destPath, ok |-> TRUE,
                              source |-> cur.filename]>>
    /\ idx' = idx + 1
    /\ cur' = NoCur
    /\ pc' = "resolve"
    /\ UNCHANGED <<settings, file, content, attachments, hugoContent, notices, changes>>

\* copyAttachment when vault.readBinary rejects (line 283).
ReadBinaryFails ==
    /\ pc = "readBinary"
    /\ Fail(<<[op |-> "readError", path |-> cur.file.path, ok |-> FALSE]>>, <<>>)
    /\ UNCHANGED <<settings, file, content, attachments, idx, cur, attachmentMap,
                   hugoContent, fsDirs, fsFiles, changes>>

\* copyAttachment when fs.mkdirSync throws.
CopyMkdirFails ==
    /\ pc = "readBinary"
    /\ cur.destDir \notin fsDirs
    /\ Fail(MkdirEvents(cur.destDir, FALSE), CaptionWarning(cur.file.bytes))
    /\ UNCHANGED <<settings, file, content, attachments, idx, cur, attachmentMap,
                   hugoContent, fsDirs, fsFiles, changes>>

\* copyAttachment when fs.writeFileSync throws.
CopyWriteFails ==
    /\ pc = "readBinary"
    /\ fsDirs' = fsDirs \cup {cur.destDir}
    /\ Fail(MkdirEvents(cur.destDir, TRUE)
            \o <<[op |-> "write",
                  path |-> pathJoin(cur.destDir, SanitizeAttachmentName(cur.file.name)),
                  ok |-> FALSE, source |-> cur.filename]>>,
            CaptionWarning(cur.file.bytes))
    /\ UNCHANGED <<settings, file, content, attachments, idx, cur, attachmentMap,
                   hugoContent, fsFiles, changes>>

\* One stage of the text: content becomes text.
Stage(name, text, next) ==
    /\ pc = name
    /\ content' = text
    /\ Logged([op |-> "stage", name |-> name, before |-> content, after |-> text,
               map |-> attachmentMap, st |-> settings])
    /\ pc' = next
    /\ UNCHANGED <<settings, file, attachments, idx, cur, attachmentMap, hugoContent,
                   fsDirs, fsFiles, notices, console, changes>>

\* Line 116.
ConvertAttachmentLinks ==
    Stage("convertAttachmentLinks",
          convertAttachmentLinks(content, attachmentMap, settings.hugoAttachmentsUrl,
                                 settings),
          "convertExternalImages")

\* Line 120.
ConvertExternalImages ==
    Stage("convertExternalImages", convertExternalImages(content, settings),
          "convertHtmlImages")

\* Line 123.
ConvertHtmlImages ==
    Stage("convertHtmlImages", convertHtmlImages(content, settings), "convertToHugo")

\* Line 125, parts being what convertToHugo computes.
ConvertedToHugo(parts) ==
    /\ hugoContent' = parts.text
    /\ console' = IF parts.threw
                  THEN Append(console, [level |-> "error",
                                        what |-> "Failed to parse frontmatter as YAML"])
                  ELSE console
    /\ Logged([op |-> "stage", name |-> "convertToHugo", before |-> content,
               after |-> parts.text, map |-> attachmentMap, st |-> settings])

\* Line 125.
ConvertToHugo ==
    /\ pc = "convertToHugo"
    /\ ConvertedToHugo(HugoParts(content, file, settings))
    /\ pc' = "write"
    /\ UNCHANGED <<settings, file, content, attachments, idx, cur, attachmentMap,
                   fsDirs, fsFiles, notices, changes>>

\* path.join(this.settings.hugoExportPath, filename)
ExportPath == pathJoin(settings.hugoExportPath, generateHugoFilename(file))

\* Lines 128-145: the document is written and the success Notice shown.
WriteDocument ==
    /\ pc = "write"
    /\ fsDirs' = fsDirs \cup {dirname(ExportPath)}
    /\ fsFiles' = (ExportPath :> hugoContent) @@ fsFiles
    /\ log' = log \o MkdirEvents(dirname(ExportPath), TRUE)
                  \o <<[op |-> "write", path |-> ExportPath, ok |-> TRUE,
                        source |-> file.path]>>
    /\ notices' = Append(notices, [kind |-> "exported", path |-> ExportPath,
                                   attachmentCount |-> Cardinality(DOMAIN attachmentMap)])
    /\ pc' = "done"
    /\ UNCHANGED <<settings, file, content, attachments, idx, cur, attachmentMap,
                   hugoContent, console, changes>>

\* fs.mkdirSync of line 134 throws.
WriteMkdirFails ==
    /\ pc = "write"
    /\ dirname(ExportPath) \notin fsDirs
    /\ Fail(MkdirEvents(dirname(ExportPath), FALSE), <<>>)
    /\ UNCHANGED <<settings, file, content, attachments, idx, cur, attachmentMap,
                   hugoContent, fsDirs, fsFiles, changes>>

\* fs.writeFileSync of line 138 throws.
WriteFails ==
    /\ pc = "write"
    /\ fsDirs' = fsDirs \cup {dirname(ExportPath)}
    /\ Fail(MkdirEvents(dirname(ExportPath), TRUE)
            \o <<[op |-> "write", path |-> ExportPath, ok |-> FALSE,
                  source |-> file.path]>>, <<>>)
    /\ UNCHANGED <<settings, file, content, attachments, idx, cur, attachmentMap,
                   hugoContent, fsFiles, changes>>

\* An onChange handler of the settings tab (display): it can run only while
\* the export is suspended.
SetSetting ==
    /\ pc \in {"read", "readBinary"}
    /\ changes < MaxChanges
    /\ \E st \in SettingsValues :
        /\ Cardinality({k \in DOMAIN st : st[k] # settings[k]}) = 1
        /\ settings' = st
    /\ changes' = changes + 1
    /\ UNCHANGED <<pc, file, content, attachments, idx, cur, attachmentMap,
                   hugoContent, fsDirs, fsFiles, notices, console, log>>

\* The steps of exportToHugo.
NextExport ==
    \/ Invoke
    \/ ReadNote
    \/ ReadFails
    \/ ResolveFound
    \/ ResolveNotFound
    \/ LoopDone
    \/ CopyAttachment
    \/ ReadBinaryFails
    \/ CopyMkdirFails
    \/ CopyWriteFails
    \/ ConvertAttachmentLinks
    \/ ConvertExternalImages
    \/ ConvertHtmlImages
    \/ ConvertToHugo
    \/ WriteDocument
    \/ WriteMkdirFails
    \/ WriteFails

Next == NextExport \/ SetSetting

Spec == Init /\ [][Next]_vars

(***************************************************************************)
(* Exports of notes with image references of the three grammars, under     *)
(* every state of the image-resizing settings; the settings do not change. *)
(***************************************************************************)
RewriteFrags ==
    { <<"!", "[", "[", "a", ".", "p", "n", "g", "|", "5", "x", "3", "]", "]">>,
      <<"!", "[", "[", "a", ".", "p", "n", "g", "|", "a", "l", "t", "]", "]">>,
      <<"!", "[", "[", "m", ".", "p", "n", "g", "]", "]">>,
      <<"!", "[", "c", "a", "p", "|", "5", "0", "0", "]", "(", "h", "t", "t", "p", ":",
        "/", "/", "x", "/", "y", ".", "j", "p", "g", ")">>,
      <<"!", "[", "]", "(", "#", "x", ")">>,
      <<"!", "[", "a", "|", "0", "x", "5", "]", "(", "u", ")">>,
      <<"<", "i", "m", "g", " ", "a", "l", "t", "=", "\"", "x", "\"", ">">>,
      <<"<", "i", "m", "g", " ", "s", "r", "c", "=", "\"", "p", ".", "p", "n", "g", "\"",
        " ", "w", "i", "d", "t", "h", "=", "\"", "5", "\"", " ", "h", "e", "i", "g", "h",
        "t", "=", "\"", "3", "\"", ">">>,
      <<"<", "I", "M", "G", " ", "s", "r", "c", "=", "'", "h", "t", "t", "p", ":", "/",
        "/", "h", "/", "q", "'", " ", "t", "i", "t", "l", "e", "=", "t", " ", "/", ">">>,
      <<" ">> }

InitRewrite ==
    \E raw \in Texts(RewriteFrags, MaxFrags) :
    \E st \in SettingsValues :
        /\ st.hugoExportPath = "/site/content"
        /\ st.hugoAttachmentsPath = "/site/static"
        /\ st.defaultAuthor = <<>>
        /\ Start(raw, st)

SpecRewrite == InitRewrite /\ [][NextExport]_vars

(***************************************************************************)
(* Exports of notes with and without a header block, with inline tags in   *)
(* the body; the settings do not change.                                   *)
(***************************************************************************)
HugoHeaders ==
    { <<>>,
      <<"-", "-", "-", "\n", "t", "i", "t", "l", "e", ":", " ", "T", "\n",
        "-", "-", "-", "\n">>,
      <<"-", "-", "-", "\n", "t", "a", "g", "s", ":", "\n", "-", " ", "b", "\n",
        "-", " ", "a", "\n", "-", " ", "a", "\n", "-", "-", "-", "\n">>,
      <<"-", "-", "-", "\n", "t", "a", "g", "s", ":", " ", "t", "\n",
        "-", "-", "-", "\n">>,
      <<"-", "-", "-", "\n", "[", "\n", "-", "-", "-", "\n">>,
      <<"-", "-", "-", "\n", "a", "u", "t", "h", "o", "r", ":", " ", "A", "\n",
        "x", ":", " ", "y", "\n", "-", "-", "-", "\n">>,
      <<"-", "-", "-", "\n", "t", "a", "g", "s", ":", "\n", "-", " ", "b", "\n", "-",
        "\n", "-", " ", "a", "\n", "d", "a", "t", "e", ":", " ", "D", "\n",
        "-", "-", "-", "\n">> }

HugoFrags ==
    { <<"#", "t", " ">>,
      <<"\n", "#", "h", " ">>,
      <<" ", "#", "b">>,
      <<"S", "o", "m", "e", " ", "#", "t", "a", "g", " ", "t", "e", "x", "t">>,
      <<"!", "[", "[", "a", ".", "p", "n", "g", "]", "]">>,
      <<"!", "[", "[", "m", ".", "p", "n", "g", "]", "]">> }

InitHugo ==
    \E header \in HugoHeaders :
    \E body \in Texts(HugoFrags, MaxFrags) :
    \E st \in SettingsValues :
        /\ st.hugoExportPath = "/site/content"
        /\ st.hugoAttachmentsPath = "/site/static"
        /\ st.hugoAttachmentsUrl = <<"/", "i">>
        /\ ~st.enableCloudflareImages
        /\ st.siteBaseUrl = <<>>
        /\ Start(header \o body, st)

SpecHugo == InitHugo /\ [][NextExport]_vars

(***************************************************************************)
(* Properties of an export, stated over the history of its calls.          *)
(***************************************************************************)
StageNames == <<"convertAttachmentLinks", "convertExternalImages",
                "convertHtmlImages", "convertToHugo">>

IsStage(e) == e.op = "stage"

IsResolve(e) == e.op = "resolve"

\* A call that failed.
IsFailure(e) == e.op \in {"mkdir", "write", "readError"} /\ ~e.ok

\* A file that was written; the document is the one written from the note.
IsWritten(e) == e.op = "write" /\ e.ok

IsDocument(e) == e.op = "write" /\ e.source = file.path

\* The place of a call in the order of the stages: reading the note, finding
\* the attachments, resolving and copying them, the four stages of the text,
\* writing the document.
Rank(e) ==
    IF e.op = "vault.read" THEN 0
    ELSE IF e.op = "findAttachments" THEN 1
    ELSE IF e.op \in {"resolve", "readBinary"} THEN 2
    ELSE IF e.op = "write" THEN (IF e.source = file.path THEN 7 ELSE 2)
    ELSE 2 + (CHOOSE k \in DOMAIN StageNames : StageNames[k] = e.name)

Ranked(e) == e.op \in {"vault.read", "findAttachments", "resolve", "readBinary",
                       "write", "stage"}

\* The stages of the text that have run, in the order they ran.
StagesRun == SelectSeq(log, IsStage)

\* How often the text t occurs in the text s.
CountSub(t, s) ==
    Cardinality({p \in 1..(Len(s) - Len(t) + 1) : SubSeq(s, p, p + Len(t) - 1) = t})

\* The internal embeds of the text s that name the file name, as written.
EmbedTextsOf(s, name) ==
    {EmbedMatchAt(s, p).text :
        p \in {q \in DOMAIN s : EmbedMatchAt(s, q).ok /\ EmbedMatchAt(s, q).filename = name}}

\* The names the resolver was asked for and did not find.
NotFoundNames == {log[n].name : n \in {k \in DOMAIN log : IsResolve(log[k]) /\ ~log[k].found}}

Exported == \E n \in DOMAIN notices : notices[n].kind = "exported"

Failed == \E n \in DOMAIN notices : notices[n].kind = "failed"

\* C1: the stages of an export run in a fixed order, each on the text the
\* previous one produced: every internal attachment found in the raw body is
\* resolved and copied, then the internal embeds, the external Markdown images
\* and the inline HTML images are rewritten, then the header is extracted and
\* the document assembled, then the document is written.  When the embed
\* rewriter reads the attachment map every attachment has been resolved and
\* every copy has completed, and the map does not change afterwards.
C1_StagesInOrder ==
    /\ \A i, j \in DOMAIN log :
         (i < j /\ Ranked(log[i]) /\ Ranked(log[j])) =>
            /\ Rank(log[i]) <= Rank(log[j])
            /\ IsStage(log[i]) => Rank(log[i]) < Rank(log[j])
    /\ \A n \in DOMAIN StagesRun :
         /\ StagesRun[n].before = IF n = 1 THEN file.raw ELSE StagesRun[n - 1].after
         /\ StagesRun[n].map = attachmentMap
         /\ n > 1 => Rank(StagesRun[n]) = Rank(StagesRun[n - 1]) + 1
    /\ \A n \in DOMAIN log :
         (IsStage(log[n]) /\ log[n].name = "convertAttachmentLinks") =>
            /\ Cardinality({i \in 1..n : IsResolve(log[i])})
                   = Len(findAttachments(file.raw))
            /\ \A i \in 1..n :
                 (IsResolve(log[i]) /\ log[i].found) =>
                    /\ log[i].name \in DOMAIN log[n].map
                    /\ \E k \in i..n : IsWritten(log[k]) /\ log[k].source = log[i].name
    /\ \A n \in DOMAIN log :
         IsDocument(log[n]) =>
            /\ Len(StagesRun) >= 3
            /\ StagesRun[Len(StagesRun)].name = "convertToHugo"
            /\ log[n].ok => fsFiles[log[n].path] = StagesRun[Len(StagesRun)].after

\* An export that copied attachments, ran the four stages and wrote the
\* document.
C1_Witness ==
    /\ pc = "done"
    /\ Exported
    /\ Len(StagesRun) = 4
    /\ Cardinality(DOMAIN attachmentMap) = 2

\* C2: when the export path is not set as the export is invoked, the export
\* is aborted before any I/O: the note is not read, nothing is resolved,
\* copied or written, and the only effect is the notice asking the user to
\* configure the path.
C2_UnsetPathAborts ==
    (pc # "idle" /\ changes = 0 /\ settings.hugoExportPath = "") =>
        /\ pc = "done"
        /\ notices = <<[kind |-> "configure"]>>
        /\ log = <<>>
        /\ fsFiles = <<>>
        /\ fsDirs = {"."}
        /\ console = <<>>
        /\ content = <<>>
        /\ attachmentMap = <<>>

\* An export of a note with embeds aborted for want of an export path, while
\* the attachments path is set.
C2_Witness ==
    /\ pc = "done"
    /\ notices = <<[kind |-> "configure"]>>
    /\ findAttachments(file.raw) # <<>>
    /\ settings.hugoAttachmentsPath # ""

\* C3: when an I/O step fails (making a directory, reading the note or an
\* attachment, writing a file) the export is aborted there: the failed call
\* is the last one, a failure message is shown and logged, no later stage
\* runs and the document is not written; what was written before is kept.
C3_FailureAborts ==
    /\ \A n \in DOMAIN log :
         IsFailure(log[n]) =>
            /\ n = Len(log)
            /\ pc = "done"
            /\ notices = <<[kind |-> "failed"]>>
            /\ console # <<>>
            /\ console[Len(console)] = [level |-> "error", what |-> "Export failed"]
            /\ ~\E k \in DOMAIN log : IsDocument(log[k]) /\ log[k].ok
    /\ \A n \in DOMAIN log : IsWritten(log[n]) => log[n].path \in DOMAIN fsFiles
    /\ Failed => (log # <<>> /\ IsFailure(log[Len(log)]))

\* The copy of the second attachment fails after the first was copied.
C3_Witness ==
    /\ Failed
    /\ fsFiles # <<>>
    /\ log[Len(log)].op = "write"
    /\ ~IsDocument(log[Len(log)])

C7_OncePerName ==
    \A i, j \in DOMAIN log :
        i < j =>
            /\ ~(IsResolve(log[i]) /\ IsResolve(log[j]) /\ log[i].name = log[j].name)
            /\ ~(log[i].op = "readBinary" /\ log[j].op = "readBinary"
                 /\ log[i].path = log[j].path)
            /\ ~(log[i].op = "write" /\ log[j].op = "write"
                 /\ log[i].source = log[j].source)

(***************************************************************************)
(* Properties of the three rewriters, stated over the stages that ran.     *)
(***************************************************************************)
\* What an image reference says: where the image is, whether that is a path
\* of the site, and what is shown with it.
EmbedRef(m, map, st) ==
    [location |-> st.hugoAttachmentsUrl \o <<"/">> \o map[m.filename].newFilename,
     internal |-> TRUE,
     alt |-> parsePipeContent(m.pipeContent).altText,
     caption |-> map[m.filename].caption,
     width |-> parsePipeContent(m.pipeContent).dimensions.width,
     height |-> parsePipeContent(m.pipeContent).dimensions.height]

ExternalRef(m) ==
    LET pipeIndex == lastIndexOfPipe(m.altOrDims)
        dims == parsePipeContent(
                    Slice(m.altOrDims, pipeIndex + 1, Len(m.altOrDims))).dimensions
        useDims == pipeIndex # 0 /\ dims.has
    IN [location |-> m.url,
        internal |-> FALSE,
        alt |-> IF useDims THEN OrUndef(Slice(m.altOrDims, 1, pipeIndex - 1))
                ELSE OrUndef(m.altOrDims),
        caption |-> Undef,
        width |-> IF useDims THEN dims.width ELSE UndefNum,
        height |-> IF useDims THEN dims.height ELSE UndefNum]

HtmlRef(m) ==
    LET attributes == ParseAttributes(m.attributesStr, 1, NoAttributes)
    IN [location |-> attributes.src,
        internal |-> ~(StartsWith(attributes.src, HttpPrefix)
                       \/ StartsWith(attributes.src, HttpsPrefix)),
        alt |-> attributes.alt,
        caption |-> attributes.title,
        width |-> IF Truthy(attributes.width) THEN parseInt(attributes.width)
                  ELSE UndefNum,
        height |-> IF Truthy(attributes.height) THEN parseInt(attributes.height)
                   ELSE UndefNum]

\* The references the stage e had to rewrite: the embeds with an entry in the
\* map, the Markdown images that are not skipped, the tags with a src.
RefsOf(e) ==
    IF e.name = "convertAttachmentLinks"
    THEN {EmbedRef(EmbedMatchAt(e.before, p), e.map, e.st) :
            p \in {q \in DOMAIN e.before :
                     /\ EmbedMatchAt(e.before, q).ok
                     /\ EmbedMatchAt(e.before, q).filename \in DOMAIN e.map}}
    ELSE IF e.name = "convertExternalImages"
    THEN {ExternalRef(ExternalMatchAt(e.before, p)) :
            p \in {q \in DOMAIN e.before :
                     /\ ExternalMatchAt(e.before, q).ok
                     /\ ~StartsWith(ExternalMatchAt(e.before, q).url, <<"{", "{">>)
                     /\ ~StartsWith(ExternalMatchAt(e.before, q).url, <<"#">>)}}
    ELSE IF e.name = "convertHtmlImages"
    THEN {HtmlRef(HtmlMatchAt(e.before, p)) :
            p \in {q \in DOMAIN e.before :
                     /\ HtmlMatchAt(e.before, q).ok
                     /\ Truthy(HtmlRef(HtmlMatchAt(e.before, q)).location)}}
    ELSE {}

\* The path p with a leading slash.
AbsoluteForm(p) == IF StartsWith(p, <<"/">>) THEN p ELSE <<"/">> \o p

\* The directive with these attributes, the absent ones left out.
Directive(src, link, r, width, height) ==
    buildFigureShortcode([src |-> src, link |-> link, alt |-> r.alt,
                          caption |-> r.caption, width |-> width, height |-> height])

\* C8: when the CDN transform is disabled, or enabled without a site base
\* URL, each of the three rewriters emits, for a reference it rewrites, a
\* directive whose src is the path or url unchanged, without a link, and with
\* the width and height of the reference as attributes.
C8_PlainPassThrough ==
    \A n \in DOMAIN log :
        (IsStage(log[n]) /\ ~CloudflareActive(log[n].st)) =>
            \A r \in RefsOf(log[n]) :
                CountSub(Directive(r.location, Undef, r, r.width, r.height),
                         log[n].after) > 0

\* What C8 says when the transform is disabled.
C8_DisabledPassThrough ==
    \A n \in DOMAIN log :
        (IsStage(log[n]) /\ ~log[n].st.enableCloudflareImages) =>
            \A r \in RefsOf(log[n]) :
                CountSub(Directive(r.location, Undef, r, r.width, r.height),
                         log[n].after) > 0

\* The src of the transform for the reference r under the settings st, the
\* image path being path.
TransformSrc(st, r, path) ==
    StripTrailingSlash(st.siteBaseUrl) \o CdnPath \o FitScaleDown
    \o (IF TruthyNum(r.width) THEN WidthOption \o NumToStr(r.width.n) ELSE <<>>)
    \o path

\* C9: when the CDN transform is enabled with a base URL, each directive
\* has src = baseUrl/cdn-cgi/image/fit=scale-down[,width=w]imagePath, with
\* the width only when one was given, imagePath being the reference in
\* absolute-path form (an external URL behind a slash), link = baseUrl + path
\* for an image of the site and the bare URL for an external one, and neither
\* width nor height as attributes; so for the example of the claim.
C9_TransformUrl ==
    \A n \in DOMAIN log :
        (IsStage(log[n]) /\ CloudflareActive(log[n].st)) =>
            /\ \A r \in RefsOf(log[n]) :
                 CountSub(
                     Directive(
                         TransformSrc(log[n].st, r,
                                      IF r.internal THEN AbsoluteForm(r.location)
                                      ELSE <<"/">> \o r.location),
                         IF r.internal
                         THEN StripTrailingSlash(log[n].st.siteBaseUrl)
                              \o AbsoluteForm(r.location)
                         ELSE r.location,
                         r, UndefNum, UndefNum),
                     log[n].after) > 0
            /\ (/\ log[n].name = "convertExternalImages"
                /\ log[n].st.siteBaseUrl = SiteUrl
                /\ log[n].before =
                     <<"!", "[", "c", "a", "p", "|", "5", "0", "0", "]", "(", "h", "t",
                       "t", "p", ":", "/", "/", "x", "/", "y", ".", "j", "p", "g", ")">>)
               => log[n].after =
                     <<"{", "{", "<", " ", "f", "i", "g", "u", "r", "e", " ", "s", "r",
                       "c", "=", "\"", "h", "t", "t", "p", "s", ":", "/", "/", "s", "i",
                       "t", "e", ".", "c", "o", "m", "/", "c", "d", "n", "-", "c", "g",
                       "i", "/", "i", "m", "a", "g", "e", "/", "f", "i", "t", "=", "s",
                       "c", "a", "l", "e", "-", "d", "o", "w", "n", ",", "w", "i", "d",
                       "t", "h", "=", "5", "0", "0", "/", "h", "t", "t", "p", ":", "/",
                       "/", "x", "/", "y", ".", "j", "p", "g", "\"", " ", "l", "i", "n",
                       "k", "=", "\"", "h", "t", "t", "p", ":", "/", "/", "x", "/", "y",
                       ".", "j", "p", "g", "\"", " ", "a", "l", "t", "=", "\"", "c", "a",
                       "p", "\"", " ", ">", "}", "}">>

\* What C9 says of the exports whose attachments URL begins with a slash.
C9_AbsolutePrefix ==
    \A n \in DOMAIN log :
        (IsStage(log[n]) /\ CloudflareActive(log[n].st)
         /\ StartsWith(log[n].st.hugoAttachmentsUrl, <<"/">>)) =>
            \A r \in RefsOf(log[n]) :
                CountSub(
                    Directive(
                        TransformSrc(log[n].st, r,
                                     IF r.internal THEN AbsoluteForm(r.location)
                                     ELSE <<"/">> \o r.location),
                        IF r.internal
                        THEN StripTrailingSlash(log[n].st.siteBaseUrl)
                             \o AbsoluteForm(r.location)
                        ELSE r.location,
                        r, UndefNum, UndefNum),
                    log[n].after) > 0

(***************************************************************************)
(* Properties of the header and the tags, stated over the last stage.      *)
(***************************************************************************)
IsHugoStage(e) == e.op = "stage" /\ e.name = "convertToHugo"

\* The text s starts with a header block: a line ---, a block, a line ---.
HasBlock(s) ==
    /\ StartsWith(s, Delimiter)
    /\ \E j \in 5..(Len(s) - 4) : SubSeq(s, j, j + 4) = BlockEnd

\* Where the first line --- after the opening one begins (at its newline).
BlockEndOf(s) ==
    CHOOSE j \in 5..(Len(s) - 4) :
        /\ SubSeq(s, j, j + 4) = BlockEnd
        /\ \A q \in 5..(j - 1) : SubSeq(s, q, q + 4) # BlockEnd

BlockOf(s) == SubSeq(s, 5, BlockEndOf(s) - 1)

AfterBlock(s) == SubSeq(s, BlockEndOf(s) + 5, Len(s))

\* a before b in the lexicographic order of the character codes.
LexLess(a, b) ==
    \/ Len(a) < Len(b) /\ SubSeq(b, 1, Len(a)) = a
    \/ \E k \in DOMAIN a \cap DOMAIN b :
         /\ SubSeq(a, 1, k - 1) = SubSeq(b, 1, k - 1)
         /\ CharCode(a[k]) < CharCode(b[k])

\* The texts of the set S in ascending order.
RECURSIVE SortSet(_)
SortSet(S) ==
    IF S = {} THEN <<>>
    ELSE LET least == CHOOSE x \in S : \A y \in S \ {x} : LexLess(x, y)
         IN <<least>> \o SortSet(S \ {least})

\* The end of the tag that starts at the # at index p of body.
TagEnd(body, p) ==
    CHOOSE e \in (p + 1)..(Len(body) + 1) :
        /\ \A q \in (p + 1)..(e - 1) : body[q] \in TagChars
        /\ (e = Len(body) + 1 \/ body[e] \notin TagChars)

\* The included inline tags of body: the runs of tag characters after a #,
\* but for those that begin a line other than the first and end at a space.
InlineTagSet(body) ==
    {SubSeq(body, p + 1, TagEnd(body, p) - 1) :
        p \in {q \in DOMAIN body :
                 /\ body[q] = "#"
                 /\ TagEnd(body, q) > q + 1
                 /\ ~(/\ q > 1
                      /\ body[q - 1] = "\n"
                      /\ TagEnd(body, q) <= Len(body)
                      /\ body[TagEnd(body, q)] = " ")}}

\* The tags as a bulleted sequence, one line each.
RECURSIVE BulletList(_)
BulletList(tags) ==
    IF tags = <<>> THEN <<>>
    ELSE <<" ", " ", "-", " ">> \o Head(tags) \o <<"\n">> \o BulletList(Tail(tags))

\* The header with these values; the tags only when there are some.
HeaderText(title, date, author, tags) ==
    <<"-", "-", "-", "\n">>
    \o <<"t", "i", "t", "l", "e", ":", " ", "\"">> \o title
    \o <<"\"", "\n", "d", "a", "t", "e", ":", " ">> \o date
    \o <<"\n", "a", "u", "t", "h", "o", "r", ":", " ">> \o author
    \o <<"\n", "d", "r", "a", "f", "t", ":", " ", "f", "a", "l", "s", "e", "\n">>
    \o (IF tags = <<>> THEN <<>>
        ELSE <<"t", "a", "g", "s", ":", "\n">> \o BulletList(tags))
    \o <<"-", "-", "-", "\n", "\n">>

\* The author of a document whose header names none.
FallbackAuthor(st) ==
    IF st.defaultAuthor # <<>> THEN st.defaultAuthor ELSE <<"U", "n", "k", "n", "o", "w", "n">>

\* C5: when the text starts with a header block that fails to parse, the
\* failure is recovered: the metadata is empty, so that title, author and tags
\* are what they are without a header, the body is what follows the block,
\* which is not in the output, the failure is logged and the export goes on
\* to write the document.
C5_ParseFailureRecovered ==
    \A n \in DOMAIN log :
        (/\ IsHugoStage(log[n])
         /\ HasBlock(log[n].before)
         /\ YamlLoad(BlockOf(log[n].before)).kind = "throw") =>
            /\ log[n].after =
                 HeaderText(file.basename, NowIso, FallbackAuthor(log[n].st),
                            SortSet(InlineTagSet(AfterBlock(log[n].before))))
                 \o AfterBlock(log[n].before)
            /\ hugoContent = log[n].after
            /\ \E k \in DOMAIN console :
                 console[k] = [level |-> "error",
                               what |-> "Failed to parse frontmatter as YAML"]
            /\ n = Len(log) => (pc = "write" /\ ~Failed)
            /\ Failed => (IsFailure(log[Len(log)]) /\ log[Len(log)].op # "readError")
            /\ (pc = "done" /\ ~Failed) =>
                 \E k \in DOMAIN log :
                    IsDocument(log[k]) /\ log[k].ok /\ fsFiles[log[k].path] = log[n].after

\* A note whose header block does not parse and whose body has an inline
\* tag, exported.
C5_Witness ==
    /\ pc = "done"
    /\ Exported
    /\ HasBlock(file.raw)
    /\ YamlLoad(BlockOf(file.raw)).kind = "throw"
    /\ InlineTagSet(AfterBlock(file.raw)) # {}

\* The text s has no image reference of any of the three grammars.
NoImageRefs(s) ==
    \A p \in DOMAIN s :
        /\ ~EmbedMatchAt(s, p).ok
        /\ ~ExternalMatchAt(s, p).ok
        /\ ~HtmlMatchAt(s, p).ok

\* C6 as claimed: a document without a header and without image references
\* comes out with its body byte-identical and a header that has the fields
\* title, date, author and draft=false and nothing else.
C6_PlainDocumentFourFields ==
    \A n \in DOMAIN log :
        (IsHugoStage(log[n]) /\ ~HasBlock(file.raw) /\ NoImageRefs(file.raw)) =>
            log[n].after =
                HeaderText(file.basename, NowIso, FallbackAuthor(log[n].st), <<>>)
                \o file.raw

\* C6 amended: a document without a header and without image references
\* comes out with its body byte-identical and a header that has the fields
\* title (the base name), date (now), author (the default author or Unknown)
\* and draft=false, and a tags sequence exactly when the body has included
\* inline tags (these tags, in ascending order); so is the document written.
C6_PlainDocument ==
    \A n \in DOMAIN log :
        (IsHugoStage(log[n]) /\ ~HasBlock(file.raw) /\ NoImageRefs(file.raw)) =>
            /\ log[n].after =
                 HeaderText(file.basename, NowIso, FallbackAuthor(log[n].st),
                            SortSet(InlineTagSet(file.raw)))
                 \o file.raw
            /\ \A k \in DOMAIN log :
                 (IsDocument(log[k]) /\ log[k].ok) => fsFiles[log[k].path] = log[n].after

\* A note without a header and without image references whose body has an
\* inline tag, exported with a default author.
C6_Witness ==
    /\ pc = "done"
    /\ Exported
    /\ ~HasBlock(file.raw)
    /\ NoImageRefs(file.raw)
    /\ InlineTagSet(file.raw) # {}
    /\ settings.defaultAuthor # <<>>

\* The tags the header block of the stage e names: the non-empty entries of
\* a sequence, or the one value of a scalar.
ExplicitTags(e) ==
    LET tags == HugoParts(e.before, file, e.st).frontmatter.tags
    IN IF tags.k = "array"
       THEN {tags.items[i] : i \in DOMAIN tags.items} \ {<<>>, Undef}
       ELSE IF tags.k = "string" THEN {tags.str}
       ELSE {}

\* C10: the tags collected are a sequence without duplicates, in ascending
\* lexicographic order, of non-empty texts, and they are exactly the
\* non-empty entries of the header's tags (or its one value) together with
\* the included inline tags of the body; the tags b, a, a without inline tags
\* give a, b.
C10_TagsSortedDistinct ==
    \A n \in DOMAIN log :
        IsHugoStage(log[n]) =>
            LET parts == HugoParts(log[n].before, file, log[n].st)
            IN /\ \A i, j \in DOMAIN parts.tags :
                    i < j => LexLess(parts.tags[i], parts.tags[j])
               /\ {parts.tags[i] : i \in DOMAIN parts.tags}
                    = ExplicitTags(log[n]) \cup InlineTagSet(parts.body)
               /\ \A i \in DOMAIN parts.tags :
                    parts.tags[i] # <<>> /\ parts.tags[i] # Undef
               /\ (/\ parts.frontmatter.tags.k = "array"
                   /\ parts.frontmatter.tags.items = << <<"b">>, <<"a">>, <<"a">> >>
                   /\ InlineTagSet(parts.body) = {})
                  => parts.tags = << <<"a">>, <<"b">> >>
               /\ parts.tags = SortSet(ExplicitTags(log[n]) \cup InlineTagSet(parts.body))

\* A note whose header names the tags b, a, a and whose body has an inline
\* tag the header names too, and one it does not.
C10_Witness ==
    /\ pc = "done"
    /\ Exported
    /\ \E n \in DOMAIN log :
         /\ IsHugoStage(log[n])
         /\ HugoParts(log[n].before, file, log[n].st).frontmatter.tags.items
              = << <<"b">>, <<"a">>, <<"a">> >>
         /\ {<<"b">>, <<"t">>} \subseteq InlineTagSet(HugoParts(log[n].before, file,
                                                               log[n].st).body)

(***************************************************************************)
(* Exports of notes whose embeds exercise every path of the resolver: a     *)
(* name found at its path, names without an extension found by an added    *)
(* extension, by link resolution or not at all, and names with an          *)
(* extension found by link resolution or not at all; two of the files have  *)
(* names that differ only in characters the copier replaces.               *)
(***************************************************************************)
ResolveFrags ==
    { <<"!", "[", "[", "a", ".", "p", "n", "g", "]", "]">>,
      <<"!", "[", "[", "p", "i", "c", "]", "]">>,
      <<"!", "[", "[", "n", "]", "]">>,
      <<"!", "[", "[", "q", "]", "]">>,
      <<"!", "[", "[", "m", ".", "p", "n", "g", "]", "]">>,
      <<"!", "[", "[", "M", "y", " ", "b", ".", "P", "N", "G", "]", "]">>,
      <<"!", "[", "[", "m", "y", "_", "b", ".", "p", "n", "g", "]", "]">> }

InitResolve ==
    \E raw \in Texts(ResolveFrags, MaxFrags) :
        Start(raw, [DEFAULT_SETTINGS EXCEPT !.hugoExportPath = "/site/content",
                                            !.hugoAttachmentsPath = "/site/static"])

SpecResolve == InitResolve /\ [][NextExport]_vars

\* The attempts the resolver has for a name, in their order: the name as a
\* path; the name with each extension, when it has none; link resolution.
Attempts(name) ==
    <<[call |-> "getAbstractFileByPath", arg |-> name]>>
    \o (IF hasExtension(name) THEN <<>>
        ELSE [n \in 1..7 |->
                [call |-> "getAbstractFileByPath",
                 arg |-> name \o <<".">>
                         \o << <<"p", "n", "g">>, <<"j", "p", "g">>,
                               <<"j", "p", "e", "g">>, <<"g", "i", "f">>,
                               <<"w", "e", "b", "p">>, <<"s", "v", "g">>,
                               <<"p", "d", "f">> >>[n]]])
    \o <<[call |-> "getFirstLinkpathDest", arg |-> name]>>

\* What an attempt finds in the vault.
AttemptResult(a) ==
    IF a.call = "getAbstractFileByPath"
    THEN (IF \E f \in VaultFiles : f.path = a.arg
          THEN CHOOSE f \in VaultFiles : f.path = a.arg ELSE NoFile)
    ELSE getFirstLinkpathDest(a.arg, file.path)

\* The attempts for a name that succeed.
Successes(name) == {k \in DOMAIN Attempts(name) : AttemptResult(Attempts(name)[k]) # NoFile}

\* The first attempt that succeeds.
FirstSuccess(name) == CHOOSE k \in Successes(name) : \A j \in Successes(name) : k <= j

\* C11: the resolver tries the exact path, then (only for a name without an
\* extension) the name with png, jpg, jpeg, gif, webp, svg, pdf in this order,
\* then link resolution; it stops at the first attempt that succeeds and
\* returns its file, and returns not-found, raising nothing, exactly when
\* every attempt fails.
C11_ResolveOrder ==
    /\ \A n \in DOMAIN log :
         IsResolve(log[n]) =>
            LET name == log[n].name
                made == log[n].tried
            IN /\ log[n].found = (Successes(name) # {})
               /\ Len(made) = IF Successes(name) = {} THEN Len(Attempts(name))
                              ELSE FirstSuccess(name)
               /\ \A k \in DOMAIN made :
                    /\ made[k].call = Attempts(name)[k].call
                    /\ made[k].arg = Attempts(name)[k].arg
                    /\ made[k].file = AttemptResult(Attempts(name)[k])
               /\ log[n].found =>
                    /\ n < Len(log)
                    /\ log[n + 1].op = "readBinary"
                    /\ log[n + 1].path
                         = AttemptResult(Attempts(name)[FirstSuccess(name)]).path
               /\ ~log[n].found =>
                    ~\E k \in DOMAIN log : log[k].op = "readError"
                                           /\ log[k].path = name
    /\ pc = "readBinary" =>
         cur.file = AttemptResult(Attempts(cur.filename)[FirstSuccess(cur.filename)])
    /\ (log # <<>> /\ IsResolve(log[Len(log)]) /\ ~log[Len(log)].found) => ~Failed

\* An export that resolved pic by the second extension although a later
\* extension and link resolution would also find a file, and did not find q
\* after all nine attempts.
C11_Witness ==
    /\ pc = "done"
    /\ Exported
    /\ \E n \in DOMAIN log :
         /\ IsResolve(log[n]) /\ log[n].name = <<"p", "i", "c">>
         /\ Len(log[n].tried) = 3
         /\ Cardinality(Successes(log[n].name)) = 3
    /\ \E n \in DOMAIN log :
         /\ IsResolve(log[n]) /\ log[n].name = <<"q">>
         /\ ~log[n].found /\ Len(log[n].tried) = 9

(***************************************************************************)
(* Properties of the serializer, stated over the directives of the stages  *)
(* that ran.                                                               *)
(***************************************************************************)
\* Every double quote of s with a backslash before it.
RECURSIVE Escaped(_)
Escaped(s) ==
    IF s = <<>> THEN <<>>
    ELSE (IF Head(s) = "\"" THEN <<"\\", "\"">> ELSE <<Head(s)>>) \o Escaped(Tail(s))

\* A text attribute behind a space when it has a value, nothing when not.
TextAttribute(name, value) ==
    IF value = Undef THEN <<>> ELSE <<" ">> \o name \o <<"=", "\"">> \o value \o <<"\"">>

\* A numeric attribute behind a space when it has a value; zeroCounts says
\* whether the number 0 is a value.
NumAttribute(name, x, zeroCounts) ==
    IF x.k = "num" /\ (zeroCounts \/ x.n # 0)
    THEN <<" ">> \o name \o <<"=", "\"">> \o NumToStr(x.n) \o <<"\"">>
    ELSE <<>>

\* The FigureSpec the rewriters hand to the serializer for the reference r
\* under the settings st: with the transform, the transform URL, the link and
\* no dimensions; without it, the location and the dimensions of r.
FigureSpecOf(r, st) ==
    IF CloudflareActive(st)
    THEN [src |-> TransformSrc(st, r, IF r.internal THEN AbsoluteForm(r.location)
                                      ELSE <<"/">> \o r.location),
          link |-> IF r.internal
                   THEN StripTrailingSlash(st.siteBaseUrl) \o AbsoluteForm(r.location)
                   ELSE r.location,
          alt |-> r.alt, caption |-> r.caption, width |-> UndefNum, height |-> UndefNum]
    ELSE [src |-> r.location, link |-> Undef, alt |-> r.alt, caption |-> r.caption,
          width |-> r.width, height |-> r.height]

\* The stages whose FigureSpecs are these: the transform is disabled, or
\* enabled with a base URL and an attachments URL that begins with a slash.
SpecKnown(e) ==
    /\ IsStage(e)
    /\ \/ ~e.st.enableCloudflareImages
       \/ CloudflareActive(e.st) /\ StartsWith(e.st.hugoAttachmentsUrl, <<"/">>)

\* The directive of the FigureSpec f: src, link, alt, caption, width, height
\* in this order, each one that has a value.
Serialized(f, zeroCounts) ==
    <<"{", "{", "<", " ", "f", "i", "g", "u", "r", "e">>
    \o TextAttribute(<<"s", "r", "c">>, f.src)
    \o TextAttribute(<<"l", "i", "n", "k">>, f.link)
    \o TextAttribute(<<"a", "l", "t">>, f.alt)
    \o TextAttribute(<<"c", "a", "p", "t", "i", "o", "n">>,
                     IF f.caption = Undef THEN Undef ELSE Escaped(f.caption))
    \o NumAttribute(<<"w", "i", "d", "t", "h">>, f.width, zeroCounts)
    \o NumAttribute(<<"h", "e", "i", "g", "h", "t">>, f.height, zeroCounts)
    \o <<" ", ">", "}", "}">>

\* C12: the serializer emits the attributes in the order src, link, alt,
\* caption, width, height, an attribute exactly when the FigureSpec has a value
\* for it, and escapes the double quotes of the caption.
C12_PresentEmitted ==
    \A n \in DOMAIN log :
        SpecKnown(log[n]) =>
            \A r \in RefsOf(log[n]) :
                CountSub(Serialized(FigureSpecOf(r, log[n].st), TRUE), log[n].after) > 0

\* What C12 says when a width or height of 0 counts as no value.
C12_NonZeroEmitted ==
    \A n \in DOMAIN log :
        SpecKnown(log[n]) =>
            \A r \in RefsOf(log[n]) :
                CountSub(Serialized(FigureSpecOf(r, log[n].st), FALSE), log[n].after) > 0

(***************************************************************************)
(* Exports of notes in which a reference of one grammar holds text of      *)
(* another: a tag in the alt text of a Markdown image or of an embed, a     *)
(* Markdown image in the caption of an attachment; and references the      *)
(* rewriters pass over, an embed that is not found among them.  The       *)
(* transform is disabled.                                                  *)
(***************************************************************************)
ComposeFrags ==
    { <<"!", "[", "<", "i", "m", "g", " ", "s", "r", "c", "=", "\"", "p", ".", "p", "n",
        "g", "\"", ">", "]", "(", "#", "x", ")">>,
      <<"!", "[", "]", "(", "#", "x", ")">>,
      <<"!", "[", "a", "]", "(", "{", "{", "x", "}", "}", ")">>,
      <<"<", "i", "m", "g", " ", "a", "l", "t", "=", "\"", "x", "\"", ">">>,
      <<"!", "[", "[", "a", ".", "p", "n", "g", "|", "<", "i", "m", "g", " ", "s", "r",
        "c", "=", "p", ">", "]", "]">>,
      <<"!", "[", "[", "c", ".", "p", "n", "g", "]", "]">>,
      <<"!", "[", "b", "]", "(", "u", ")">>,
      <<"!", "[", "[", "a", ".", "p", "n", "g", "]", "]">>,
      <<"!", "[", "[", "m", ".", "p", "n", "g", "]", "]">> }

InitCompose ==
    \E raw \in Texts(ComposeFrags, MaxFrags) :
        Start(raw, [DEFAULT_SETTINGS EXCEPT !.hugoExportPath = "/site/content",
                                            !.hugoAttachmentsPath = "/site/static"])

SpecCompose == InitCompose /\ [][NextExport]_vars

\* The references the stage e matched and passed over, as written: the
\* Markdown images whose url begins with {{ or #, the tags without a src.
SkippedBy(e) ==
    IF e.name = "convertExternalImages"
    THEN {ExternalMatchAt(e.before, p).text :
            p \in {q \in DOMAIN e.before :
                     /\ ExternalMatchAt(e.before, q).ok
                     /\ \/ StartsWith(ExternalMatchAt(e.before, q).url, <<"{", "{">>)
                        \/ StartsWith(ExternalMatchAt(e.before, q).url, <<"#">>)}}
    ELSE IF e.name = "convertHtmlImages"
    THEN {HtmlMatchAt(e.before, p).text :
            p \in {q \in DOMAIN e.before :
                     /\ HtmlMatchAt(e.before, q).ok
                     /\ HtmlRef(HtmlMatchAt(e.before, q)).location = Undef}}
    ELSE {}

\* C13: a matched reference for which no FigureSpec can be built (a Markdown
\* image whose url begins with {{ or with #, a tag without a src) is in the
\* output of its rewriter, of every later stage and in the written document
\* as it was matched, as often as it was matched.
C13_SkippedKept ==
    \A n \in DOMAIN log :
        IsStage(log[n]) =>
            \A t \in SkippedBy(log[n]) :
                \A k \in n..Len(log) :
                    /\ IsStage(log[k]) =>
                         CountSub(t, log[k].after) >= CountSub(t, log[n].before)
                    /\ (IsDocument(log[k]) /\ log[k].ok) =>
                         CountSub(t, fsFiles[log[k].path]) >= CountSub(t, log[n].before)

\* What C13 says of the rewriter that passes the reference over: its own
\* output holds the reference as it was matched.
C13_SkippedByRewriter ==
    \A n \in DOMAIN log :
        IsStage(log[n]) =>
            \A t \in SkippedBy(log[n]) :
                CountSub(t, log[n].after) >= CountSub(t, log[n].before)

(***************************************************************************)
(* Exports of notes whose embeds carry a pipe modifier of every form: two   *)
(* numbers, one number, a number 0, text that is nearly a dimension, plain  *)
(* text, and none; one embed is not found.  The attachments URL is         *)
(* /images; the transform is disabled, or enabled with a base URL.         *)
(***************************************************************************)
PipeFrags ==
    { <<"!", "[", "[", "p", "h", "o", "t", "o", ".", "j", "p", "g", "|", "5",
        "0", "0", "x", "3", "0", "0", "]", "]">>,
      <<"!", "[", "[", "p", "h", "o", "t", "o", ".", "j", "p", "g", "|", "5",
        "0", "0", "]", "]">>,
      <<"!", "[", "[", "p", "h", "o", "t", "o", ".", "j", "p", "g", "|", "0",
        "x", "5", "]", "]">>,
      <<"!", "[", "[", "p", "h", "o", "t", "o", ".", "j", "p", "g", "|", "5",
        "x", "]", "]">>,
      <<"!", "[", "[", "p", "h", "o", "t", "o", ".", "j", "p", "g", "|", "a",
        " ", "b", "]", "]">>,
      <<"!", "[", "[", "p", "h", "o", "t", "o", ".", "j", "p", "g", "]", "]">>,
      <<"!", "[", "[", "a", ".", "p", "n", "g", "|", " ", "5", "]", "]">>,
      <<"!", "[", "[", "m", ".", "p", "n", "g", "|", "5", "]", "]">> }

ImagesUrl == <<"/", "i", "m", "a", "g", "e", "s">>

InitPipe ==
    \E raw \in Texts(PipeFrags, MaxFrags) :
    \E cf \in BOOLEAN :
        Start(raw, [DEFAULT_SETTINGS EXCEPT !.hugoExportPath = "/site/content",
                                            !.hugoAttachmentsPath = "/site/static",
                                            !.hugoAttachmentsUrl = ImagesUrl,
                                            !.enableCloudflareImages = cf,
                                            !.siteBaseUrl = IF cf THEN SiteUrl ELSE <<>>])

SpecPipe == InitPipe /\ [][NextExport]_vars

\* s is one or more decimal digits.
IsNumber(s) ==
    /\ s # Undef
    /\ s # <<>>
    /\ \A n \in DOMAIN s : s[n] \in {"0", "1", "2", "3", "4", "5", "6", "7", "8", "9"}

\* The number the digits s write.
RECURSIVE Decimal(_)
Decimal(s) ==
    IF s = <<>> THEN 0
    ELSE 10 * Decimal(SubSeq(s, 1, Len(s) - 1))
         + (CHOOSE d \in 0..9 : NatToStr(d) = <<s[Len(s)]>>)

\* Where the x of a pipe text of the form number x number is; 0 when the text
\* is not of this form.
CrossOf(pipe) ==
    IF pipe # Undef /\ \E x \in DOMAIN pipe :
                         /\ pipe[x] = "x"
                         /\ IsNumber(SubSeq(pipe, 1, x - 1))
                         /\ IsNumber(SubSeq(pipe, x + 1, Len(pipe)))
    THEN CHOOSE x \in DOMAIN pipe :
             /\ pipe[x] = "x"
             /\ IsNumber(SubSeq(pipe, 1, x - 1))
             /\ IsNumber(SubSeq(pipe, x + 1, Len(pipe)))
    ELSE 0

\* The pipe modifier of the claim: Dimensions of one or two numbers, the
\* literal text as alt, or nothing when there is no pipe.
PipeModifier(pipe) ==
    IF pipe = Undef THEN [alt |-> Undef, width |-> UndefNum, height |-> UndefNum]
    ELSE IF IsNumber(pipe)
        THEN [alt |-> Undef, width |-> Num(Decimal(pipe)), height |-> UndefNum]
    ELSE IF CrossOf(pipe) # 0
        THEN [alt |-> Undef,
              width |-> Num(Decimal(SubSeq(pipe, 1, CrossOf(pipe) - 1))),
              height |-> Num(Decimal(SubSeq(pipe, CrossOf(pipe) + 1, Len(pipe))))]
    ELSE [alt |-> pipe, width |-> UndefNum, height |-> UndefNum]

\* The embed m as a reference with the pipe modifier of the claim.
PipeRef(m, map, st) ==
    [location |-> st.hugoAttachmentsUrl \o <<"/">> \o map[m.filename].newFilename,
     internal |-> TRUE,
     alt |-> PipeModifier(m.pipeContent).alt,
     caption |-> map[m.filename].caption,
     width |-> PipeModifier(m.pipeContent).width,
     height |-> PipeModifier(m.pipeContent).height]

\* The embeds of the text the stage e read that have an entry in the map.
MappedEmbeds(e) ==
    {EmbedMatchAt(e.before, p) :
        p \in {q \in DOMAIN e.before :
                 /\ EmbedMatchAt(e.before, q).ok
                 /\ EmbedMatchAt(e.before, q).filename \in DOMAIN e.map}}

IsEmbedStage(e) == IsStage(e) /\ e.name = "convertAttachmentLinks"

\* The directive the claim describes for the embed m; zeroCounts says whether
\* a dimension of 0 is emitted.
PipeDirective(m, e, zeroCounts) ==
    Serialized(FigureSpecOf(PipeRef(m, e.map, e.st), e.st), zeroCounts)

\* C14: for an embed whose name is in the attachment map the pipe modifier is
\* Dimensions when it is number or number x number, and then, the transform
\* disabled, the directive has this width and height and no alt; any other
\* pipe text is the alt, literally, without width or height; without a pipe
\* there is neither; the directive replaces the embed.  So for the example of
\* the claim.
C14_PipeClassified ==
    \A n \in DOMAIN log :
        IsEmbedStage(log[n]) =>
            /\ \A m \in MappedEmbeds(log[n]) :
                 /\ CountSub(PipeDirective(m, log[n], TRUE), log[n].after) > 0
                 /\ CountSub(m.text, log[n].after) = 0
            /\ (/\ ~log[n].st.enableCloudflareImages
                /\ log[n].before = <<"!", "[", "[", "p", "h", "o", "t", "o", ".",
                               "j", "p", "g", "|", "5", "0", "0", "x", "3",
                               "0", "0", "]", "]">>)
               => log[n].after = <<"{", "{", "<", " ", "f", "i", "g", "u", "r",
                                "e", " ", "s", "r", "c", "=", "\"", "/", "i",
                                "m", "a", "g", "e", "s", "/", "p", "h", "o",
                                "t", "o", ".", "j", "p", "g", "\"", " ", "w",
                                "i", "d", "t", "h", "=", "\"", "5", "0", "0",
                                "\"", " ", "h", "e", "i", "g", "h", "t", "=",
                                "\"", "3", "0", "0", "\"", " ", ">", "}", "}">>

\* What C14 says when a width or height of 0 is not emitted.
C14_NonZeroClassified ==
    \A n \in DOMAIN log :
        IsEmbedStage(log[n]) =>
            /\ \A m \in MappedEmbeds(log[n]) :
                 /\ CountSub(PipeDirective(m, log[n], FALSE), log[n].after) > 0
                 /\ CountSub(m.text, log[n].after) = 0
            /\ (/\ ~log[n].st.enableCloudflareImages
                /\ log[n].before = <<"!", "[", "[", "p", "h", "o", "t", "o", ".",
                               "j", "p", "g", "|", "5", "0", "0", "x", "3",
                               "0", "0", "]", "]">>)
               => log[n].after = <<"{", "{", "<", " ", "f", "i", "g", "u", "r",
                                "e", " ", "s", "r", "c", "=", "\"", "/", "i",
                                "m", "a", "g", "e", "s", "/", "p", "h", "o",
                                "t", "o", ".", "j", "p", "g", "\"", " ", "w",
                                "i", "d", "t", "h", "=", "\"", "5", "0", "0",
                                "\"", " ", "h", "e", "i", "g", "h", "t", "=",
                                "\"", "3", "0", "0", "\"", " ", ">", "}", "}">>

(***************************************************************************)
(* Properties of the assembled document.                                   *)
(***************************************************************************)
\* The metadata of the text the stage e read: the mapping of its header
\* block, empty when there is none or it does not parse.
MetadataOf(e) ==
    IF HasBlock(e.before) THEN YamlLoad(BlockOf(e.before)).fm ELSE EmptyFrontmatter

\* The body of that text: what follows the header block.
BodyOf(e) == IF HasBlock(e.before) THEN AfterBlock(e.before) ELSE e.before

\* The value v, or else the value other.
OrElse(v, other) == IF v # Undef /\ v # <<>> THEN v ELSE other

\* C15: the header has, in this order, title (the title of the metadata or
\* else the base name), date, author (the author of the metadata or else the
\* default author or else Unknown) and draft: false, then the tags exactly
\* when some were collected, and no other field of the metadata; a blank line
\* and the body, verbatim, follow it.
C15_HeaderAssembled ==
    \A n \in DOMAIN log :
        IsHugoStage(log[n]) =>
            /\ log[n].after =
                 HeaderText(OrElse(MetadataOf(log[n]).title, file.basename),
                            OrElse(MetadataOf(log[n]).date, NowIso),
                            OrElse(MetadataOf(log[n]).author,
                                   OrElse(log[n].st.defaultAuthor,
                                          <<"U", "n", "k", "n", "o", "w", "n">>)),
                            SortSet(ExplicitTags(log[n]) \cup InlineTagSet(BodyOf(log[n]))))
                 \o BodyOf(log[n])
            /\ CountSub(<<"x", ":", " ", "y">>, log[n].after)
                 = CountSub(<<"x", ":", " ", "y">>, BodyOf(log[n]))
            /\ CountSub(<<"d", "r", "a", "f", "t", ":", " ", "f", "a", "l", "s", "e", "\n">>,
                        log[n].after) > 0
            /\ \A k \in DOMAIN log :
                 (IsDocument(log[k]) /\ log[k].ok) => fsFiles[log[k].path] = log[n].after

\* A note whose header names an author and a field the export does not
\* read, exported with a default author set and an inline tag in the body.
C15_Witness ==
    /\ pc = "done"
    /\ Exported
    /\ HasBlock(file.raw)
    /\ CountSub(<<"x", ":", " ", "y">>, BlockOf(file.raw)) > 0
    /\ settings.defaultAuthor # <<>>
    /\ InlineTagSet(AfterBlock(file.raw)) # {}
    /\ \E n \in DOMAIN log :
         /\ IsHugoStage(log[n])
         /\ MetadataOf(log[n]).author = <<"A">>
         /\ MetadataOf(log[n]).title = Undef

(***************************************************************************)
(* Properties of the copies of one export.                                 *)
(***************************************************************************)
\* The file name with every character outside A-Z, a-z, 0-9, . and - replaced
\* by -, in lower case.
Sanitized(name) ==
    [n \in DOMAIN name |->
        IF name[n] \in Digits \cup {".", "-"} THEN name[n]
        ELSE IF name[n] \in Lower THEN name[n]
        ELSE IF name[n] \in Upper
            THEN LowerSeq[CHOOSE k \in DOMAIN UpperSeq : UpperSeq[k] = name[n]]
        ELSE "-"]

\* The attachment writes of the export: the positions in the log of the
\* writes that are not the document's.
CopyWrites == {n \in DOMAIN log : IsWritten(log[n]) /\ ~IsDocument(log[n])}

\* The vault file whose bytes the write at n wrote: the one read last
\* before it.
SourceOf(n) ==
    LET r == CHOOSE k \in 1..n :
                 /\ log[k].op = "readBinary"
                 /\ \A q \in (k + 1)..n : log[q].op # "readBinary"
    IN CHOOSE f \in VaultFiles : f.path = log[r].path

\* Two copies of distinct files whose names sanitize to the same string.
Collide(i, j) ==
    /\ i \in CopyWrites /\ j \in CopyWrites /\ i < j
    /\ SourceOf(i) # SourceOf(j)
    /\ Sanitized(SourceOf(i).name) = Sanitized(SourceOf(j).name)

\* C16: copying detects no collision: when two distinct attachments of one
\* export have names that sanitize to the same string, both are written to
\* the same destination path, the file holds the bytes of the one copied
\* last, nothing is reported, and both entries of the attachment map carry
\* the same new file name.
C16_CollisionOverwrites ==
    \A i, j \in DOMAIN log :
        Collide(i, j) =>
            /\ log[i].path = log[j].path
            /\ log[j].path.name = Sanitized(SourceOf(j).name)
            /\ (\A k \in CopyWrites : k > j => log[k].path # log[j].path)
                 => fsFiles[log[j].path] = <<SourceOf(j).bytes.id>>
            /\ log[i].source \in DOMAIN attachmentMap
            /\ attachmentMap[log[i].source].newFilename = Sanitized(SourceOf(i).name)
            /\ (pc # "readBinary" /\ ~(Failed /\ log[Len(log)].op \in {"mkdir", "write"}
                                       /\ ~IsDocument(log[Len(log)])))
                 => /\ log[j].source \in DOMAIN attachmentMap
                    /\ attachmentMap[log[j].source].newFilename
                         = attachmentMap[log[i].source].newFilename
            /\ \A k \in DOMAIN console : console[k].level = "error" => Failed
            /\ \A k \in DOMAIN console :
                 console[k].level = "warn" => console[k].what # "Export failed"
            /\ (pc = "done" /\ ~Failed) =>
                 notices = <<[kind |-> "exported", path |-> ExportPath,
                              attachmentCount |-> Cardinality(DOMAIN attachmentMap)]>>

\* An export that copied My b.PNG and then my_b.png to the one path
\* my-b.png, which holds the bytes of my_b.png.
C16_Witness ==
    /\ pc = "done"
    /\ Exported
    /\ \E i, j \in DOMAIN log :
         /\ Collide(i, j)
         /\ SourceOf(i).name = <<"M", "y", " ", "b", ".", "P", "N", "G">>
         /\ fsFiles[log[j].path] = <<"my_b.png">>
    /\ Cardinality(DOMAIN attachmentMap) = 2
    /\ Cardinality({attachmentMap[k].newFilename : k \in DOMAIN attachmentMap}) = 1

(***************************************************************************)
(* Exports of notes without a header whose bodies have inline tags at the  *)
(* start of the text, at the start of a line and within a line, followed   *)
(* by a space, by a newline or by the end of the text; some have embeds.   *)
(***************************************************************************)
TagFrags ==
    { <<"#", "t", " ">>,
      <<"\n", "#", "h", " ">>,
      <<"\n", "#", "e">>,
      <<"\n">>,
      <<"S", "o", "m", "e", " ", "#", "t", "a", "g", " ", "t", "e", "x", "t">>,
      <<" ", "#", "b">>,
      <<"#", " ", "T">>,
      <<"\n", "#", "a", "/", "b", "-", "1", ".">>,
      <<"!", "[", "[", "a", ".", "p", "n", "g", "]", "]", "!", "[", "[", "m", ".", "p",
        "n", "g", "]", "]">> }

InitTags ==
    \E raw \in Texts(TagFrags, MaxFrags) :
        Start(raw, [DEFAULT_SETTINGS EXCEPT !.hugoExportPath = "/site/content",
                                            !.hugoAttachmentsPath = "/site/static"])

SpecTags == InitTags /\ [][NextExport]_vars

\* The matches of the inline tag pattern in body: each # with a tag character
\* after it.
TagMatches(body) == {q \in DOMAIN body : body[q] = "#" /\ TagEnd(body, q) > q + 1}

\* The three conditions under which a match is excluded.
Excluded(body, q) ==
    /\ q # 1
    /\ body[q - 1] = "\n"
    /\ TagEnd(body, q) <= Len(body) /\ body[TagEnd(body, q)] = " "

TagAt(body, q) == SubSeq(body, q + 1, TagEnd(body, q) - 1)

\* C17: a match of the inline tag pattern is excluded exactly when it is not
\* at the start of the body, the character before it is a newline and the
\* character after it is a space; every other match gives a tag, and the tags
\* from the body are the tags of these matches; so "Some #tag text" gives tag.
C17_InlineTagRule ==
    \A n \in DOMAIN log :
        (IsHugoStage(log[n]) /\ ExplicitTags(log[n]) = {}) =>
            LET body == BodyOf(log[n])
                tags == HugoParts(log[n].before, file, log[n].st).tags
                collected == {tags[i] : i \in DOMAIN tags}
            IN /\ \A q \in TagMatches(body) :
                    ~Excluded(body, q) => TagAt(body, q) \in collected
               /\ \A t \in collected :
                    \E q \in TagMatches(body) : ~Excluded(body, q) /\ TagAt(body, q) = t
               /\ body = <<"S", "o", "m", "e", " ", "#", "t", "a", "g", " ", "t", "e",
                           "x", "t">>
                    => tags = << <<"t", "a", "g">> >>
               /\ CountSub(<<"t", "a", "g", "s", ":", "\n">>, log[n].after) > 0
                    <=> (\E q \in TagMatches(body) : ~Excluded(body, q))

\* A body with a tag at a line start followed by a space, which is excluded,
\* and a tag at a line start that ends the body, which is included.
C17_Witness ==
    /\ pc = "done"
    /\ Exported
    /\ \E q \in TagMatches(file.raw) :
         Excluded(file.raw, q) /\ TagAt(file.raw, q) = <<"h">>
    /\ \E q \in TagMatches(file.raw) :
         /\ q > 1 /\ file.raw[q - 1] = "\n" /\ TagEnd(file.raw, q) = Len(file.raw) + 1
    /\ hugoContent # <<>>
    /\ CountSub(<<" ", " ", "-", " ", "e", "\n">>, hugoContent) = 1
    /\ CountSub(<<" ", " ", "-", " ", "h", "\n">>, hugoContent) = 0

(***************************************************************************)
(* Properties of the composition of the three rewriters.                   *)
(***************************************************************************)
\* The text t holds a reference a rewriter after the stage e rewrites: a
\* Markdown image that is not passed over (after the embed rewriter only), or
\* a tag with a src.
HoldsLaterReference(t, e) ==
    \E p \in DOMAIN t :
        \/ /\ e.name = "convertAttachmentLinks"
           /\ ExternalMatchAt(t, p).ok
           /\ ~StartsWith(ExternalMatchAt(t, p).url, <<"{", "{">>)
           /\ ~StartsWith(ExternalMatchAt(t, p).url, <<"#">>)
        \/ /\ HtmlMatchAt(t, p).ok
           /\ HtmlRef(HtmlMatchAt(t, p)).location # Undef

\* The directives the stage e emitted, one for each reference it rewrote.
EmittedBy(e) ==
    {Serialized(FigureSpecOf(r, e.st), FALSE) : r \in RefsOf(e)}

\* The image references of the input: the embeds with an entry in the map,
\* the Markdown images that are not passed over, the tags with a src.
InputReferences(map) ==
    Cardinality({q \in DOMAIN file.raw :
                    /\ EmbedMatchAt(file.raw, q).ok
                    /\ EmbedMatchAt(file.raw, q).filename \in DOMAIN map})
    + Cardinality({q \in DOMAIN file.raw :
                    /\ ExternalMatchAt(file.raw, q).ok
                    /\ ~StartsWith(ExternalMatchAt(file.raw, q).url, <<"{", "{">>)
                    /\ ~StartsWith(ExternalMatchAt(file.raw, q).url, <<"#">>)})
    + Cardinality({q \in DOMAIN file.raw :
                    /\ HtmlMatchAt(file.raw, q).ok
                    /\ HtmlRef(HtmlMatchAt(file.raw, q)).location # Undef})

\* C18: the rewriters do not interfere: a directive emitted by the embed
\* rewriter or by the Markdown image rewriter is matched by no later
\* rewriter and is, with its alt and caption, in the output of every later
\* stage as it was emitted; and the final body has at most one directive for
\* each image reference of the input.
C18_NoInterference ==
    \A n \in DOMAIN log :
        IsStage(log[n]) =>
            /\ log[n].name \in {"convertAttachmentLinks", "convertExternalImages"} =>
                 \A d \in EmittedBy(log[n]) :
                    /\ ~HoldsLaterReference(d, log[n])
                    /\ \A k \in n..Len(log) :
                         IsStage(log[k]) => CountSub(d, log[k].after) > 0
            /\ log[n].name = "convertHtmlImages" =>
                 CountSub(FigureOpen, log[n].after) <= InputReferences(log[n].map)

\* What C18 says of the directives that hold no reference of a later
\* grammar in their alt or caption.
C18_PlainDirectivesKept ==
    \A n \in DOMAIN log :
        (IsStage(log[n])
         /\ log[n].name \in {"convertAttachmentLinks", "convertExternalImages"}) =>
            \A d \in EmittedBy(log[n]) :
                ~HoldsLaterReference(d, log[n]) =>
                    \A k \in n..Len(log) :
                        IsStage(log[k]) => CountSub(d, log[k].after) > 0

(***************************************************************************)
(* Properties of the settings one export uses, while the settings tab may  *)
(* change them.                                                            *)
(***************************************************************************)
\* The settings as the export started: those its first call was made under.
StartSettings == log[1].st

\* The settings the stage e reads.
UsedBy(e) ==
    IF e.name = "convertAttachmentLinks"
    THEN {"hugoAttachmentsUrl", "enableCloudflareImages", "siteBaseUrl"}
    ELSE IF e.name = "convertToHugo" THEN {"defaultAuthor"}
    ELSE {"enableCloudflareImages", "siteBaseUrl"}

\* C19: one export uses one configuration: every setting value it uses is the
\* value the setting had when the export started, whatever the settings tab
\* does while the export waits; all its attachments are written under the
\* same directory, and the document is never written with an empty export
\* path.
C19_OneConfiguration ==
    log # <<>> =>
        /\ \A n \in DOMAIN log :
             /\ IsStage(log[n]) =>
                  \A k \in UsedBy(log[n]) : log[n].st[k] = StartSettings[k]
             /\ (log[n].op = "write" /\ ~IsDocument(log[n])) =>
                  log[n].path.dir = StartSettings.hugoAttachmentsPath
             /\ (log[n].op = "write" /\ IsDocument(log[n])) =>
                  /\ log[n].path.dir = StartSettings.hugoExportPath
                  /\ log[n].path.dir # ""
             /\ log[n].op = "findAttachments" => StartSettings.hugoAttachmentsPath # ""
        /\ \A i, j \in CopyWrites : log[i].path.dir = log[j].path.dir
        /\ (StartSettings.hugoAttachmentsPath # "" /\ StagesRun # <<>>) =>
             \E n \in DOMAIN log : log[n].op = "findAttachments"

\* What C19 says of the exports during which no setting is changed.
C19_UnchangedConfiguration ==
    changes = 0 => C19_OneConfiguration

====
